---- MODULE Spec2Model ----
(***************************************************************************)
(* Khmer Products catalog backend: the SQLite schema of create_database.py, *)
(* the Flask request handlers of api_server.py, the KhmerProductsDB helper  *)
(* class of database_examples.py and the spreadsheet import of              *)
(* excel_import.py, as a state machine over the three tables.               *)
(*                                                                          *)
(* Text is a sequence of one-character strings, so that trimming, LIKE      *)
(* matching, case folding and ordering are computed character by character. *)
(* A stored or transmitted value is a tagged record (NULL, TEXT, INTEGER),  *)
(* so that SQLite's column affinity is a conversion and not the identity.   *)
(***************************************************************************)
EXTENDS Integers, Sequences, FiniteSets, TLC

VARIABLES
    manufacturers,    \* rows of table manufacturers
    products,         \* rows of table products
    categories,       \* rows of table categories
    sqlite_sequence,  \* AUTOINCREMENT high-water mark of each table
    files,            \* paths written under Product/ and Manufacturers/
    now,              \* the clock, in seconds
    resp,             \* the response to the latest sequential request
    pc,               \* per concurrent request: the statement it is at
    local             \* per concurrent request: its local variables

vars == <<manufacturers, products, categories, sqlite_sequence, files, now, resp, pc, local>>

----------------------------------------------------------------------------
(* Bounds of the model.                                                     *)

MaxManufacturers == 2
MaxProducts == 2
MaxCategories == 2
MaxTime == 1

----------------------------------------------------------------------------
(* Characters and text.                                                     *)

LowerLetters ==
    <<"a","b","c","d","e","f","g","h","i","j","k","l","m",
      "n","o","p","q","r","s","t","u","v","w","x","y","z">>

UpperLetters ==
    <<"A","B","C","D","E","F","G","H","I","J","K","L","M",
      "N","O","P","Q","R","S","T","U","V","W","X","Y","Z">>

Digits == <<"0","1","2","3","4","5","6","7","8","9">>

Range(s) == {s[i] : i \in 1..Len(s)}

IndexOf(s, c) == CHOOSE i \in 1..Len(s) : s[i] = c

IsUpper(c) == c \in Range(UpperLetters)
IsLower(c) == c \in Range(LowerLetters)
IsDigit(c) == c \in Range(Digits)

\* str.isalnum() on one character
IsAlnum(c) == IsUpper(c) \/ IsLower(c) \/ IsDigit(c)

\* the character's code point: what a BINARY collation compares
Ascii(c) ==
    IF IsDigit(c) THEN 47 + IndexOf(Digits, c)
    ELSE IF IsUpper(c) THEN 64 + IndexOf(UpperLetters, c)
    ELSE IF IsLower(c) THEN 96 + IndexOf(LowerLetters, c)
    ELSE IF c = " " THEN 32
    ELSE IF c = "%" THEN 37
    ELSE IF c = "-" THEN 45
    ELSE IF c = "." THEN 46
    ELSE IF c = "/" THEN 47
    ELSE IF c = "_" THEN 95
    ELSE 127

\* str.lower() on one character
LowerChar(c) == IF IsUpper(c) THEN LowerLetters[IndexOf(UpperLetters, c)] ELSE c

\* str.lower()
Lower(s) == [i \in 1..Len(s) |-> LowerChar(s[i])]

IsSpace(c) == c = " "

RECURSIVE LStrip(_)
LStrip(s) == IF s # <<>> /\ IsSpace(Head(s)) THEN LStrip(Tail(s)) ELSE s

RECURSIVE RStrip(_)
RStrip(s) ==
    IF s # <<>> /\ IsSpace(s[Len(s)]) THEN RStrip(SubSeq(s, 1, Len(s) - 1)) ELSE s

\* mutant: only the leading whitespace removed
Strip_LeftOnly(s) == LStrip(s)

\* str.strip()
Strip(s) == RStrip(LStrip(s))

\* memcmp order of two texts: a < b
RECURSIVE TextLess(_, _)
TextLess(a, b) ==
    IF b = <<>> THEN FALSE
    ELSE IF a = <<>> THEN TRUE
    ELSE IF Ascii(Head(a)) # Ascii(Head(b)) THEN Ascii(Head(a)) < Ascii(Head(b))
    ELSE TextLess(Tail(a), Tail(b))

\* SQLite's LIKE: % matches any run of characters, _ matches any one character,
\* every other character matches itself, ASCII letters without regard to case
RECURSIVE Like(_, _)
Like(text, pattern) ==
    IF pattern = <<>> THEN text = <<>>
    ELSE IF Head(pattern) = "%"
         THEN \E k \in 0..Len(text) : Like(SubSeq(text, k + 1, Len(text)), Tail(pattern))
    ELSE IF text = <<>> THEN FALSE
    ELSE /\ \/ Head(pattern) = "_"
            \/ LowerChar(Head(pattern)) = LowerChar(Head(text))
         /\ Like(Tail(text), Tail(pattern))

\* digits of a natural number
RECURSIVE NatToText(_)
NatToText(n) ==
    IF n < 10 THEN <<Digits[n + 1]>> ELSE NatToText(n \div 10) \o <<Digits[(n % 10) + 1]>>

RECURSIVE TextToNat(_)
TextToNat(s) ==
    IF s = <<>> THEN 0
    ELSE 10 * TextToNat(SubSeq(s, 1, Len(s) - 1)) + (IndexOf(Digits, s[Len(s)]) - 1)

IsNatLiteral(s) == s # <<>> /\ \A i \in 1..Len(s) : IsDigit(s[i])

----------------------------------------------------------------------------
(* Values: what a JSON field, a form field, a bound parameter or a stored   *)
(* column holds.                                                            *)

Null == [t |-> "null", s |-> <<>>, n |-> 0]
Txt(s) == [t |-> "text", s |-> s, n |-> 0]
Num(n) == [t |-> "integer", s |-> <<>>, n |-> n]

IsNull(v) == v.t = "null"
IsTxt(v) == v.t = "text"
IsInt(v) == v.t = "integer"

\* a column declared TEXT stores a number as its text
TextAffinity(v) == IF IsInt(v) THEN Txt(NatToText(v.n)) ELSE v

\* a column declared INTEGER stores a well-formed integer text as the integer
IntegerAffinity(v) ==
    IF IsTxt(v) /\ IsNatLiteral(Strip(v.s)) THEN Num(TextToNat(Strip(v.s))) ELSE v

\* Python truthiness of a value: None, '' and 0 are false
Truthy(v) == ~IsNull(v) /\ ~(IsTxt(v) /\ v.s = <<>>) /\ ~(IsInt(v) /\ v.n = 0)

\* x LIKE pattern as a WHERE term: NULL is not a match, a number is matched as text
SqlLike(v, pattern) == ~IsNull(v) /\ Like(TextAffinity(v).s, pattern)

----------------------------------------------------------------------------
(* The store: the three tables of create_database.py and SQLite's           *)
(* AUTOINCREMENT bookkeeping. No connection sets PRAGMA foreign_keys, so    *)
(* the FOREIGN KEY clause of products is not enforced.                      *)

DB == [manufacturers |-> manufacturers, products |-> products,
       categories |-> categories, sqlite_sequence |-> sqlite_sequence]

EmptyDB == [manufacturers |-> {}, products |-> {}, categories |-> {},
            sqlite_sequence |-> [manufacturers |-> 0, products |-> 0, categories |-> 0]]

SetMax(S) == IF S = {} THEN 0 ELSE CHOOSE x \in S : \A y \in S : y <= x

\* mutant: INTEGER PRIMARY KEY without AUTOINCREMENT: one more than the largest id held
NextRowid_MaxRowid(db, table) ==
    LET held == {r.id : r \in db[table]}
    IN  SetMax(held) + 1

\* INTEGER PRIMARY KEY AUTOINCREMENT: one more than the largest id the table ever held
NextRowid(db, table) ==
    LET held == {r.id : r \in db[table]}
    IN  SetMax(held \cup {db.sqlite_sequence[table]}) + 1

InsertOk(db, id) == [ok |-> TRUE, err |-> "", db |-> db, lastrowid |-> id]
InsertFailed(db, err) == [ok |-> FALSE, err |-> err, db |-> db, lastrowid |-> 0]

\* mutant: the manufacturers table declared without UNIQUE on name
InsertManufacturer_NoUnique(db, t, name, description, logo_path, business) ==
    LET id == NextRowid(db, "manufacturers")
        row == [id |-> id,
                name |-> TextAffinity(name),
                description |-> TextAffinity(description),
                logo_path |-> TextAffinity(logo_path),
                business_name |-> TextAffinity(business[1]),
                business_address |-> TextAffinity(business[2]),
                business_contact |-> TextAffinity(business[3]),
                business_social_network |-> TextAffinity(business[4]),
                created_at |-> Num(t),
                updated_at |-> Num(t)]
    IN  IF IsNull(row.name)
        THEN InsertFailed(db, "NOT NULL constraint failed: manufacturers.name")
        ELSE InsertOk([db EXCEPT !.manufacturers = @ \cup {row},
                                 !.sqlite_sequence.manufacturers = id], id)

\* INSERT INTO manufacturers (name, description, logo_path, business_...) at time t
InsertManufacturer(db, t, name, description, logo_path, business) ==
    LET id == NextRowid(db, "manufacturers")
        row == [id |-> id,
                name |-> TextAffinity(name),
                description |-> TextAffinity(description),
                logo_path |-> TextAffinity(logo_path),
                business_name |-> TextAffinity(business[1]),
                business_address |-> TextAffinity(business[2]),
                business_contact |-> TextAffinity(business[3]),
                business_social_network |-> TextAffinity(business[4]),
                created_at |-> Num(t),
                updated_at |-> Num(t)]
    IN  IF IsNull(row.name)
        THEN InsertFailed(db, "NOT NULL constraint failed: manufacturers.name")
        ELSE IF \E m \in db.manufacturers : m.name = row.name
        THEN InsertFailed(db, "UNIQUE constraint failed: manufacturers.name")
        ELSE InsertOk([db EXCEPT !.manufacturers = @ \cup {row},
                                 !.sqlite_sequence.manufacturers = id], id)

\* INSERT INTO products (name, category, description, image_path, manufacturer_id) at time t
InsertProduct(db, t, name, category, description, image_path, manufacturer_id) ==
    LET id == NextRowid(db, "products")
        row == [id |-> id,
                name |-> TextAffinity(name),
                category |-> TextAffinity(category),
                description |-> TextAffinity(description),
                manufacturer_id |-> IntegerAffinity(manufacturer_id),
                image_path |-> TextAffinity(image_path),
                created_at |-> Num(t),
                updated_at |-> Num(t)]
    IN  IF IsNull(row.name)
        THEN InsertFailed(db, "NOT NULL constraint failed: products.name")
        ELSE IF IsNull(row.category)
        THEN InsertFailed(db, "NOT NULL constraint failed: products.category")
        ELSE InsertOk([db EXCEPT !.products = @ \cup {row},
                                 !.sqlite_sequence.products = id], id)

\* INSERT INTO categories (name) at time t
InsertCategory(db, t, name) ==
    LET id == NextRowid(db, "categories")
        row == [id |-> id, name |-> TextAffinity(name), created_at |-> Num(t)]
    IN  IF IsNull(row.name)
        THEN InsertFailed(db, "NOT NULL constraint failed: categories.name")
        ELSE IF \E c \in db.categories : c.name = row.name
        THEN InsertFailed(db, "UNIQUE constraint failed: categories.name")
        ELSE InsertOk([db EXCEPT !.categories = @ \cup {row},
                                 !.sqlite_sequence.categories = id], id)

----------------------------------------------------------------------------
(* Requests and responses.                                                  *)

\* request.get_json(): a JSON object, or nothing usable (no body, JSON null)
JsonObject(f) == [kind |-> "dict", f |-> f]
NoJson == [kind |-> "none", f |-> [nothing |-> Null]]

Has(data, key) == key \in DOMAIN data.f

\* mutant: an omitted optional field read as None
Get_NoDefault(data, key) == IF Has(data, key) THEN data.f[key] ELSE Null

\* data.get(key, '')
Get(data, key) == IF Has(data, key) THEN data.f[key] ELSE Txt(<<>>)

\* request.form.get(key): a string, or None when the field was not sent
FormGet(form, key) == IF key \in DOMAIN form THEN form[key] ELSE Null

\* request.form.get(key, '')
FormGetOr(form, key) == IF key \in DOMAIN form THEN form[key] ELSE Txt(<<>>)

\* a response: the status, the message, and what the body carries besides; op is the
\* handler that answered
Resp(status, msg) ==
    [op |-> "", status |-> status, msg |-> msg, id |-> 0, count |-> 0, rows |-> <<>>]

\* what a handler does: the store it leaves, its response, the files it wrote
Outcome(db, r) == [db |-> db, resp |-> r, written |-> {}]

----------------------------------------------------------------------------
(* Upload handling shared by the handlers.                                  *)

\* mutant: exe among the allowed extensions
ALLOWED_EXTENSIONS_WithExe ==
    {<<"p","n","g">>, <<"j","p","g">>, <<"j","p","e","g">>, <<"g","i","f">>, <<"w","e","b","p">>,
     <<"e","x","e">>}

ALLOWED_EXTENSIONS ==
    {<<"p","n","g">>, <<"j","p","g">>, <<"j","p","e","g">>, <<"g","i","f">>, <<"w","e","b","p">>}

\* filename.rsplit('.', 1)[1]: the text after the last '.'
RECURSIVE AfterLastDot(_)
AfterLastDot(s) ==
    IF s[Len(s)] = "." THEN <<>>
    ELSE AfterLastDot(SubSeq(s, 1, Len(s) - 1)) \o <<s[Len(s)]>>

\* mutant: any extension allowed
allowed_file_AnyExtension(filename) == "." \in Range(filename)

allowed_file(filename) ==
    /\ "." \in Range(filename)
    /\ Lower(AfterLastDot(filename)) \in ALLOWED_EXTENSIONS

\* s.replace(old, new) for single characters
ReplaceChar(s, old, new) == [i \in 1..Len(s) |-> IF s[i] = old THEN new ELSE s[i]]

\* "_".join(s.split()): runs of whitespace become one '_', none at either end
RECURSIVE JoinRuns(_)
JoinRuns(s) ==
    IF s = <<>> THEN <<>>
    ELSE IF IsSpace(Head(s)) THEN <<"_">> \o JoinRuns(LStrip(s))
    ELSE <<Head(s)>> \o JoinRuns(Tail(s))

JoinWords(s) == JoinRuns(Strip(s))

IsFilenameChar(c) == IsAlnum(c) \/ c \in {"_", ".", "-"}

RECURSIVE StripChars(_, _)
StripChars(s, cs) ==
    IF s # <<>> /\ Head(s) \in cs THEN StripChars(Tail(s), cs)
    ELSE IF s # <<>> /\ s[Len(s)] \in cs THEN StripChars(SubSeq(s, 1, Len(s) - 1), cs)
    ELSE s

\* werkzeug.utils.secure_filename on ASCII text
secure_filename(s) ==
    StripChars(SelectSeq(JoinWords(ReplaceChar(s, "/", " ")), IsFilenameChar),
               {".", "_"})

ProductDir == <<"P","r","o","d","u","c","t","/">>
ManufacturersDir == <<"M","a","n","u","f","a","c","t","u","r","e","r","s","/">>

\* an uploaded file part: whether the field was sent, and under what filename
NoUpload == [sent |-> FALSE, filename |-> <<>>]
Upload(filename) == [sent |-> TRUE, filename |-> filename]

\* the update handlers' filename: secure_filename(name.lower().replace(' ', '_'))_<time>.<ext>
UpdateFilename(name, t, upload) ==
    secure_filename(ReplaceChar(Lower(name), " ", "_"))
        \o <<"_">> \o NatToText(t) \o <<".">> \o Lower(AfterLastDot(upload.filename))

\* 'image' in request.files, and the file is named and of an allowed type
UploadAccepted(upload) ==
    upload.sent /\ upload.filename # <<>> /\ allowed_file(upload.filename)

\* ''.join(c if c.isalnum() else '_' for c in s.lower())
SafeName(s) == [i \in 1..Len(s) |-> IF IsAlnum(LowerChar(s[i])) THEN LowerChar(s[i]) ELSE "_"]

\* request.form.get(key, default) for a form of texts
FormText(form, key, default) == IF key \in DOMAIN form THEN form[key].s ELSE default

\* the answer to an accepted upload: 201 with the relative path, the file written
Uploaded(db, msg, relative_path) ==
    [db |-> db,
     resp |-> [Resp(201, msg) EXCEPT !.rows = <<[file_path |-> Txt(relative_path)]>>],
     written |-> {relative_path}]

\* mutant: the filename built without the time
upload_product_image_Untimed(db, t, upload, form) ==
    IF ~upload.sent
    THEN Outcome(db, Resp(400, "No image file provided"))
    ELSE LET product_name == FormText(form, "product_name", <<"p","r","o","d","u","c","t">>)
         IN  IF upload.filename = <<>>
             THEN Outcome(db, Resp(400, "No file selected"))
             ELSE IF allowed_file(upload.filename)
             THEN LET file_extension == Lower(AfterLastDot(upload.filename))
                      safe_product_name == SafeName(product_name)
                      filename == safe_product_name \o <<".">> \o file_extension
                  IN  Uploaded(db, "Image uploaded successfully", ProductDir \o filename)
             ELSE Outcome(db, Resp(400, "Invalid file type"))

\* POST /api/upload/product-image
upload_product_image(db, t, upload, form) ==
    IF ~upload.sent
    THEN Outcome(db, Resp(400, "No image file provided"))
    ELSE LET product_name == FormText(form, "product_name", <<"p","r","o","d","u","c","t">>)
         IN  IF upload.filename = <<>>
             THEN Outcome(db, Resp(400, "No file selected"))
             ELSE IF allowed_file(upload.filename)
             THEN LET file_extension == Lower(AfterLastDot(upload.filename))
                      safe_product_name == SafeName(product_name)
                      filename == safe_product_name \o <<"_">> \o NatToText(t)
                                      \o <<".">> \o file_extension
                  IN  Uploaded(db, "Image uploaded successfully", ProductDir \o filename)
             ELSE Outcome(db, Resp(400, "Invalid file type"))

\* POST /api/upload/manufacturer-logo
upload_manufacturer_logo(db, t, upload, form) ==
    IF ~upload.sent
    THEN Outcome(db, Resp(400, "No logo file provided"))
    ELSE LET manufacturer_name ==
                 FormText(form, "manufacturer_name", <<"m","a","n","u","f","a","c","t","u","r","e","r">>)
         IN  IF upload.filename = <<>>
             THEN Outcome(db, Resp(400, "No file selected"))
             ELSE IF allowed_file(upload.filename)
             THEN LET file_extension == Lower(AfterLastDot(upload.filename))
                      safe_manufacturer_name == SafeName(manufacturer_name)
                      filename == safe_manufacturer_name \o <<"_","l","o","g","o","_">>
                                      \o NatToText(t) \o <<".">> \o file_extension
                  IN  Uploaded(db, "Logo uploaded successfully", ManufacturersDir \o filename)
             ELSE Outcome(db, Resp(400, "Invalid file type"))

----------------------------------------------------------------------------
(* Read handlers of api_server.py.                                          *)

\* FROM products p LEFT JOIN manufacturers m ON p.manufacturer_id = m.id, one column of m
JoinedColumn(db, p, column) ==
    LET ms == {m \in db.manufacturers : p.manufacturer_id = Num(m.id)}
    IN  IF ms = {} THEN Null ELSE (CHOOSE m \in ms : TRUE)[column]

Extend(row, key, value) ==
    [k \in DOMAIN row \cup {key} |-> IF k = key THEN value ELSE row[k]]

\* SELECT p.*, m.name as manufacturer_name, m.logo_path as manufacturer_logo
ListedProduct(db, p) ==
    Extend(Extend(p, "manufacturer_name", JoinedColumn(db, p, "name")),
           "manufacturer_logo", JoinedColumn(db, p, "logo_path"))

\* the WHERE clause get_products builds from the query string
ProductMatches(db, p, args) ==
    /\ Truthy(args.category) => p.category = args.category
    /\ Truthy(args.manufacturer) => JoinedColumn(db, p, "name") = args.manufacturer
    /\ Truthy(args.search) =>
          LET search_term == <<"%">> \o args.search.s \o <<"%">>
          IN  SqlLike(p.name, search_term) \/ SqlLike(p.description, search_term)

\* ORDER BY name: every order of the rows that is non-decreasing in name
OrderedByName(rows) ==
    {q \in [1..Cardinality(rows) -> rows] :
        /\ \A i, j \in 1..Cardinality(rows) : i # j => q[i] # q[j]
        /\ \A i, j \in 1..Cardinality(rows) : i < j => ~TextLess(q[j].name.s, q[i].name.s)}

\* GET /api/products: the result lists the handler may return
get_products(db, args) ==
    OrderedByName({ListedProduct(db, p) : p \in {x \in db.products : ProductMatches(db, x, args)}})

\* GET /api/products/<id>
get_product(db, product_id) ==
    LET found == {p \in db.products : p.id = product_id}
    IN  IF found = {}
        THEN Outcome(db, Resp(404, "Product not found"))
        ELSE LET p == CHOOSE x \in found : TRUE
             IN  Outcome(db, [Resp(200, "product") EXCEPT
                     !.rows = <<Extend(p, "manufacturer_name", JoinedColumn(db, p, "name"))>>])

\* one row of the view products_with_manufacturers
ViewedProduct(db, p) ==
    [id |-> p.id, name |-> p.name, category |-> p.category, description |-> p.description,
     image_path |-> p.image_path,
     manufacturer_name |-> JoinedColumn(db, p, "name"),
     manufacturer_description |-> JoinedColumn(db, p, "description"),
     manufacturer_logo |-> JoinedColumn(db, p, "logo_path"),
     created_at |-> p.created_at, updated_at |-> p.updated_at]

\* KhmerProductsDB.search_products: the result lists it may return
search_products(db, search_term) ==
    LET search_pattern == <<"%">> \o search_term \o <<"%">>
    IN  OrderedByName({v \in {ViewedProduct(db, p) : p \in db.products} :
            \/ SqlLike(v.name, search_pattern)
            \/ SqlLike(v.description, search_pattern)
            \/ SqlLike(v.category, search_pattern)
            \/ SqlLike(v.manufacturer_name, search_pattern)})

\* mutant: the rows of the categories table counted instead
DistinctCategories_Table(db) == {c.name : c \in db.categories}

\* SELECT COUNT(DISTINCT category) FROM products: the values counted
DistinctCategories(db) == {p.category : p \in {x \in db.products : ~IsNull(x.category)}}

\* SELECT category, COUNT(*) FROM products GROUP BY category: the groups
GroupByCategory(db) ==
    {[category |-> c, count |-> Cardinality({p \in db.products : p.category = c})] :
        c \in {p.category : p \in db.products}}

\* ORDER BY COUNT(*) DESC: every order of the groups that is non-increasing in count
OrderedByCountDesc(groups) ==
    {q \in [1..Cardinality(groups) -> groups] :
        /\ \A i, j \in 1..Cardinality(groups) : i # j => q[i] # q[j]
        /\ \A i, j \in 1..Cardinality(groups) : i < j => q[i].count >= q[j].count}

\* GET /api/stats run without interruption: the bodies it may return
get_stats(db) ==
    {[total_products |-> Cardinality(db.products),
      total_manufacturers |-> Cardinality(db.manufacturers),
      total_categories |-> Cardinality(DistinctCategories(db)),
      category_breakdown |-> category_stats] :
        category_stats \in OrderedByCountDesc(GroupByCategory(db))}

\* GET /api/manufacturers/<id>
get_manufacturer(db, manufacturer_id) ==
    LET found == {m \in db.manufacturers : m.id = manufacturer_id}
    IN  IF found = {}
        THEN Outcome(db, Resp(404, "Manufacturer not found"))
        ELSE Outcome(db, [Resp(200, "manufacturer") EXCEPT !.rows = <<CHOOSE m \in found : TRUE>>])

----------------------------------------------------------------------------
(* Write handlers of api_server.py. Each is the whole handler run alone:    *)
(* the store it commits, the response, the files it saved. A handler that   *)
(* raises commits nothing: its connection is dropped with the transaction   *)
(* open, which rolls it back, and the except clause answers 500.            *)

\* POST /api/categories
add_category(db, t, data) ==
    IF data.kind = "none" \/ ~Has(data, "name")
    THEN Outcome(db, Resp(400, "Category name is required"))
    ELSE IF ~IsTxt(data.f["name"])
    THEN Outcome(db, Resp(500, "AttributeError"))
    ELSE LET category_name == Txt(Strip(data.f["name"].s))
         IN  IF category_name.s = <<>>
             THEN Outcome(db, Resp(400, "Category name cannot be empty"))
             ELSE IF \E c \in db.categories : c.name = category_name
             THEN Outcome(db, Resp(409, "Category already exists"))
             ELSE LET ins == InsertCategory(db, t, category_name)
                  IN  IF ~ins.ok THEN Outcome(db, Resp(500, ins.err))
                      ELSE Outcome(ins.db, [Resp(201, "Category created successfully") EXCEPT
                               !.id = ins.lastrowid, !.rows = <<[name |-> category_name]>>])

\* mutant: the category compared without regard to case (LIKE for =)
CountByCategory_Like(db, category_name) ==
    Cardinality({p \in db.products : SqlLike(p.category, category_name.s)})

\* SELECT COUNT(*) FROM products WHERE category = ?
CountByCategory(db, category_name) ==
    Cardinality({p \in db.products : p.category = category_name})

\* DELETE /api/categories/<id>
delete_category(db, category_id) ==
    LET found == {c \in db.categories : c.id = category_id}
    IN  IF found = {}
        THEN Outcome(db, Resp(404, "Category not found"))
        ELSE LET category_name == (CHOOSE c \in found : TRUE).name
                 product_count == CountByCategory(db, category_name)
             IN  IF product_count > 0
                 THEN Outcome(db, [Resp(409, "Cannot delete category") EXCEPT
                          !.count = product_count])
                 ELSE Outcome([db EXCEPT !.categories = @ \ found],
                              Resp(200, "Category deleted successfully"))

\* mutant: a product accepted only under the name of a category row
add_product_KnownCategory(db, t, data) ==
    IF data.kind = "none"
    THEN Outcome(db, Resp(500, "TypeError"))
    ELSE IF ~(Has(data, "name") /\ Has(data, "category") /\ Has(data, "manufacturer_id"))
    THEN Outcome(db, Resp(400, "Missing required fields"))
    ELSE IF ~\E c \in db.categories : c.name = data.f["category"]
    THEN Outcome(db, Resp(400, "Unknown category"))
    ELSE LET ins == InsertProduct(db, t, data.f["name"], data.f["category"],
                                  Get(data, "description"), Get(data, "image_path"),
                                  data.f["manufacturer_id"])
         IN  IF ~ins.ok THEN Outcome(db, Resp(500, ins.err))
             ELSE Outcome(ins.db, [Resp(201, "Product added successfully") EXCEPT
                      !.id = ins.lastrowid])

\* POST /api/products
add_product(db, t, data) ==
    IF data.kind = "none"
    THEN Outcome(db, Resp(500, "TypeError"))
    ELSE IF ~(Has(data, "name") /\ Has(data, "category") /\ Has(data, "manufacturer_id"))
    THEN Outcome(db, Resp(400, "Missing required fields"))
    ELSE LET ins == InsertProduct(db, t, data.f["name"], data.f["category"],
                                  Get(data, "description"), Get(data, "image_path"),
                                  data.f["manufacturer_id"])
         IN  IF ~ins.ok THEN Outcome(db, Resp(500, ins.err))
             ELSE Outcome(ins.db, [Resp(201, "Product added successfully") EXCEPT
                      !.id = ins.lastrowid])

\* POST /api/manufacturers
add_manufacturer(db, t, data) ==
    IF data.kind = "none"
    THEN Outcome(db, Resp(500, "TypeError"))
    ELSE IF ~Has(data, "name")
    THEN Outcome(db, Resp(400, "Name is required"))
    ELSE LET ins == InsertManufacturer(db, t, data.f["name"],
                                       Get(data, "description"), Get(data, "logo_path"),
                                       <<Get(data, "business_name"), Get(data, "business_address"),
                                         Get(data, "business_contact"),
                                         Get(data, "business_social_network")>>)
         IN  IF ~ins.ok THEN Outcome(db, Resp(500, ins.err))
             ELSE Outcome(ins.db, [Resp(201, "Manufacturer added successfully") EXCEPT
                      !.id = ins.lastrowid])

\* mutant: the DELETE matching every product of the same category
delete_product_ByCategory(db, product_id) ==
    LET found == {p \in db.products : p.id = product_id}
    IN  IF found = {}
        THEN Outcome(db, Resp(404, "Product not found"))
        ELSE Outcome([db EXCEPT !.products =
                         {p \in @ : \A f \in found : p.category # f.category}],
                     Resp(200, "Product deleted successfully"))

\* DELETE /api/products/<id>
delete_product(db, product_id) ==
    LET found == {p \in db.products : p.id = product_id}
    IN  IF found = {}
        THEN Outcome(db, Resp(404, "Product not found"))
        ELSE Outcome([db EXCEPT !.products = @ \ found],
                     Resp(200, "Product deleted successfully"))

\* UPDATE products SET name, category, manufacturer_id, description, image_path WHERE id = ?
UpdateProductRow(db, product_id, name, category, manufacturer_id, description, image_path) ==
    [db EXCEPT !.products =
        {IF p.id = product_id
         THEN [p EXCEPT !.name = TextAffinity(name),
                        !.category = TextAffinity(category),
                        !.manufacturer_id = IntegerAffinity(manufacturer_id),
                        !.description = TextAffinity(description),
                        !.image_path = TextAffinity(image_path)]
         ELSE p : p \in @}]

\* PUT /api/products/<id>
update_product(db, t, product_id, form, upload) ==
    LET found == {p \in db.products : p.id = product_id}
    IN  IF found = {}
        THEN Outcome(db, Resp(404, "Product not found"))
        ELSE
        LET existing_product == CHOOSE p \in found : TRUE
            name == FormGet(form, "name")
            category == FormGet(form, "category")
            manufacturer_id == FormGet(form, "manufacturer_id")
            description == FormGetOr(form, "description")
        IN  IF ~(Truthy(name) /\ Truthy(category) /\ Truthy(manufacturer_id))
            THEN Outcome(db, Resp(400, "Name, category, and manufacturer are required"))
            ELSE
            LET saved == UploadAccepted(upload)
                path == ProductDir \o UpdateFilename(name.s, t, upload)
                image_path == IF saved THEN Txt(path) ELSE existing_product.image_path
            IN  [db |-> UpdateProductRow(db, product_id, name, category, manufacturer_id,
                                         description, image_path),
                 resp |-> [Resp(200, "Product updated successfully") EXCEPT !.id = product_id],
                 written |-> IF saved THEN {path} ELSE {}]

\* mutant: the row changed although the UPDATE is reported as failed
UpdateManufacturerRow_ThenFail(db, manufacturer_id, name, description, logo_path, business) ==
    LET changed == [db EXCEPT !.manufacturers =
                       {IF m.id = manufacturer_id
                        THEN [m EXCEPT !.description = TextAffinity(description),
                                       !.logo_path = TextAffinity(logo_path)]
                        ELSE m : m \in @}]
    IN  IF \E m \in db.manufacturers : m.id # manufacturer_id /\ m.name = TextAffinity(name)
        THEN InsertFailed(changed, "UNIQUE constraint failed: manufacturers.name")
        ELSE InsertOk([changed EXCEPT !.manufacturers =
                {IF m.id = manufacturer_id
                 THEN [m EXCEPT !.name = TextAffinity(name),
                                !.business_name = TextAffinity(business[1]),
                                !.business_address = TextAffinity(business[2]),
                                !.business_contact = TextAffinity(business[3]),
                                !.business_social_network = TextAffinity(business[4])]
                 ELSE m : m \in @}], manufacturer_id)

\* mutant: the UPDATE not held to the UNIQUE constraint on name
UpdateManufacturerRow_NoUnique(db, manufacturer_id, name, description, logo_path, business) ==
    InsertOk([db EXCEPT !.manufacturers =
        {IF m.id = manufacturer_id
         THEN [m EXCEPT !.name = TextAffinity(name),
                        !.description = TextAffinity(description),
                        !.logo_path = TextAffinity(logo_path),
                        !.business_name = TextAffinity(business[1]),
                        !.business_address = TextAffinity(business[2]),
                        !.business_contact = TextAffinity(business[3]),
                        !.business_social_network = TextAffinity(business[4])]
         ELSE m : m \in @}], manufacturer_id)

\* UPDATE manufacturers SET name, description, logo_path, business_... WHERE id = ?
UpdateManufacturerRow(db, manufacturer_id, name, description, logo_path, business) ==
    IF \E m \in db.manufacturers : m.id # manufacturer_id /\ m.name = TextAffinity(name)
    THEN InsertFailed(db, "UNIQUE constraint failed: manufacturers.name")
    ELSE InsertOk([db EXCEPT !.manufacturers =
            {IF m.id = manufacturer_id
             THEN [m EXCEPT !.name = TextAffinity(name),
                            !.description = TextAffinity(description),
                            !.logo_path = TextAffinity(logo_path),
                            !.business_name = TextAffinity(business[1]),
                            !.business_address = TextAffinity(business[2]),
                            !.business_contact = TextAffinity(business[3]),
                            !.business_social_network = TextAffinity(business[4])]
             ELSE m : m \in @}], manufacturer_id)

\* PUT /api/manufacturers/<id>
update_manufacturer(db, t, manufacturer_id, form, upload) ==
    LET found == {m \in db.manufacturers : m.id = manufacturer_id}
    IN  IF found = {}
        THEN Outcome(db, Resp(404, "Manufacturer not found"))
        ELSE
        LET existing_manufacturer == CHOOSE m \in found : TRUE
            name == FormGet(form, "name")
        IN  IF ~Truthy(name)
            THEN Outcome(db, Resp(400, "Name is required"))
            ELSE
            LET saved == UploadAccepted(upload)
                path == ManufacturersDir \o UpdateFilename(name.s, t, upload)
                logo_path == IF saved THEN Txt(path) ELSE existing_manufacturer.logo_path
                upd == UpdateManufacturerRow(db, manufacturer_id, name,
                           FormGetOr(form, "description"), logo_path,
                           <<FormGetOr(form, "business_name"), FormGetOr(form, "business_address"),
                             FormGetOr(form, "business_contact"),
                             FormGetOr(form, "business_social_network")>>)
            IN  [db |-> upd.db,
                 resp |-> IF upd.ok
                          THEN [Resp(200, "Manufacturer updated successfully") EXCEPT
                                   !.id = manufacturer_id]
                          ELSE Resp(500, upd.err),
                 written |-> IF saved THEN {path} ELSE {}]

\* mutant: the id bound as text, which no stored integer equals
CountByManufacturer_TextId(db, manufacturer_id) ==
    Cardinality({p \in db.products : p.manufacturer_id = Txt(NatToText(manufacturer_id))})

\* SELECT COUNT(*) as count FROM products WHERE manufacturer_id = ?
CountByManufacturer(db, manufacturer_id) ==
    Cardinality({p \in db.products : p.manufacturer_id = Num(manufacturer_id)})

\* DELETE /api/manufacturers/<id>
delete_manufacturer(db, manufacturer_id) ==
    LET found == {m \in db.manufacturers : m.id = manufacturer_id}
        product_count == CountByManufacturer(db, manufacturer_id)
    IN  IF found = {}
        THEN Outcome(db, Resp(404, "Manufacturer not found"))
        ELSE IF product_count > 0
        THEN Outcome(db, [Resp(400, "Cannot delete manufacturer") EXCEPT !.count = product_count])
        ELSE Outcome([db EXCEPT !.manufacturers = @ \ found],
                     Resp(200, "Manufacturer deleted successfully"))

\* the credentials login_admin compares with
ADMIN_USERNAME == Txt(<<"c","b","s","d","i","g","i","t","a","l","a","d","m","i","n">>)
ADMIN_PASSWORD == Txt(<<"O","V","M","c","K","P","R","L","J","7","8","s","J","E","C">>)

\* mutant: every attempt recorded in the store
login_admin_Audited(db, data) ==
    IF data.kind = "none" \/ ~(Has(data, "username") /\ Has(data, "password"))
    THEN Outcome(db, Resp(400, "Username and password are required"))
    ELSE Outcome([db EXCEPT !.categories = @ \cup {[id |-> 0, name |-> data.f["username"],
                                                   created_at |-> Null]}],
                 IF data.f["username"] = ADMIN_USERNAME /\ data.f["password"] = ADMIN_PASSWORD
                 THEN Resp(200, "Login successful")
                 ELSE Resp(401, "Invalid username or password"))

\* POST /api/login
login_admin(db, data) ==
    IF data.kind = "none" \/ ~(Has(data, "username") /\ Has(data, "password"))
    THEN Outcome(db, Resp(400, "Username and password are required"))
    ELSE IF data.f["username"] = ADMIN_USERNAME /\ data.f["password"] = ADMIN_PASSWORD
    THEN Outcome(db, Resp(200, "Login successful"))
    ELSE Outcome(db, Resp(401, "Invalid username or password"))

----------------------------------------------------------------------------
(* KhmerProductsDB of database_examples.py: it answers with a return value   *)
(* or an exception, reported here as status 200 or as the exception's name.  *)

Raised(db, exception) == Outcome(db, Resp(0, exception))

\* KhmerProductsDB.delete_manufacturer(manufacturer_id): the connection never turns
\* foreign_keys on, so the DELETE is not held to the products that reference the row
KhmerProductsDB_delete_manufacturer(db, manufacturer_id) ==
    LET found == {m \in db.manufacturers : m.id = manufacturer_id}
    IN  IF found = {}
        THEN Outcome(db, Resp(200, "False"))
        ELSE Outcome([db EXCEPT !.manufacturers = @ \ found], Resp(200, "True"))

\* KhmerProductsDB.add_manufacturer(name, description=None, logo_path=None)
KhmerProductsDB_add_manufacturer(db, t, name, description, logo_path) ==
    LET ins == InsertManufacturer(db, t, name, description, logo_path, <<Null, Null, Null, Null>>)
    IN  IF ~ins.ok
        THEN Raised(db, "ValueError: Manufacturer already exists")
        ELSE Outcome(ins.db, [Resp(200, "lastrowid") EXCEPT !.id = ins.lastrowid])

----------------------------------------------------------------------------
(* excel_import.py: the Manufacturers sheet, one INSERT per row, a row that  *)
(* violates a constraint skipped, one commit at the end.                     *)

RECURSIVE ImportManufacturerRows(_, _, _)
ImportManufacturerRows(db, t, sheet) ==
    IF sheet = <<>> THEN db
    ELSE LET row == Head(sheet)
             ins == InsertManufacturer(db, t, row.name, row.description, row.logo_path,
                                       <<row.business_name, row.business_address,
                                         row.business_contact, row.business_social_network>>)
         IN  ImportManufacturerRows(ins.db, t, Tail(sheet))

import_manufacturers_from_excel(db, t, sheet) ==
    Outcome(ImportManufacturerRows(db, t, sheet), Resp(200, "imported manufacturers"))

----------------------------------------------------------------------------
(* The state machine. A request handled alone is one step. The inputs of a   *)
(* step are drawn from the pool its specification passes in.                 *)

Threads == {"t1", "t2"}

NoLocal ==
    [id |-> 0, name |-> Null, form |-> [nothing |-> Null], image_path |-> Null, counts |-> <<>>,
     conn |-> "none"]

Init ==
    /\ manufacturers = {}
    /\ products = {}
    /\ categories = {}
    /\ sqlite_sequence = [manufacturers |-> 0, products |-> 0, categories |-> 0]
    /\ files = {}
    /\ now = 0
    /\ resp = Resp(0, "")
    /\ pc = [t \in Threads |-> "idle"]
    /\ local = [t \in Threads |-> NoLocal]

\* commit the handler's outcome and send its response
Apply(op, o) ==
    /\ manufacturers' = o.db.manufacturers
    /\ products' = o.db.products
    /\ categories' = o.db.categories
    /\ sqlite_sequence' = o.db.sqlite_sequence
    /\ files' = files \cup o.written
    /\ resp' = [o.resp EXCEPT !.op = op]
    /\ UNCHANGED <<now, pc, local>>

Tick ==
    /\ now < MaxTime
    /\ now' = now + 1
    /\ UNCHANGED <<manufacturers, products, categories, sqlite_sequence, files, resp, pc, local>>

ManufacturerIds == 1..(MaxManufacturers + 1)
ProductIds == 1..(MaxProducts + 1)
CategoryIds == 1..(MaxCategories + 1)

AddManufacturerReq(bodies) ==
    \E data \in bodies :
        /\ sqlite_sequence.manufacturers < MaxManufacturers
        /\ Apply("add_manufacturer", add_manufacturer(DB, now, data))

KhmerAddManufacturerReq(names) ==
    \E name \in names :
        /\ sqlite_sequence.manufacturers < MaxManufacturers
        /\ Apply("KhmerProductsDB.add_manufacturer",
                 KhmerProductsDB_add_manufacturer(DB, now, name, Null, Null))

UpdateManufacturerReq(forms, uploads) ==
    \E id \in ManufacturerIds, form \in forms, upload \in uploads :
        Apply("update_manufacturer", update_manufacturer(DB, now, id, form, upload))

DeleteManufacturerReq ==
    \E id \in ManufacturerIds :
        Apply("delete_manufacturer", delete_manufacturer(DB, id))

ImportManufacturersReq(sheets) ==
    \E sheet \in sheets :
        /\ sqlite_sequence.manufacturers + Len(sheet) <= MaxManufacturers
        /\ Apply("import_manufacturers_from_excel",
                 import_manufacturers_from_excel(DB, now, sheet))

AddProductReq(bodies) ==
    \E data \in bodies :
        /\ sqlite_sequence.products < MaxProducts
        /\ Apply("add_product", add_product(DB, now, data))

UpdateProductReq(forms, uploads) ==
    \E id \in ProductIds, form \in forms, upload \in uploads :
        Apply("update_product", update_product(DB, now, id, form, upload))

DeleteProductReq ==
    \E id \in ProductIds :
        Apply("delete_product", delete_product(DB, id))

AddCategoryReq(bodies) ==
    \E data \in bodies :
        /\ sqlite_sequence.categories < MaxCategories
        /\ Apply("add_category", add_category(DB, now, data))

DeleteCategoryReq ==
    \E id \in CategoryIds :
        Apply("delete_category", delete_category(DB, id))

GetProductReq ==
    \E id \in ProductIds :
        Apply("get_product", get_product(DB, id))

GetProductsReq(queries) ==
    \E args \in queries :
        \E listed \in get_products(DB, args) :
            Apply("get_products", Outcome(DB, [Resp(200, "products") EXCEPT !.rows = listed]))

UploadProductImageReq(uploads, forms) ==
    \E upload \in uploads, form \in forms :
        Apply("upload_product_image", upload_product_image(DB, now, upload, form))

UploadManufacturerLogoReq(uploads, forms) ==
    \E upload \in uploads, form \in forms :
        Apply("upload_manufacturer_logo", upload_manufacturer_logo(DB, now, upload, form))

LoginReq(bodies) ==
    \E data \in bodies :
        Apply("login_admin", login_admin(DB, data))

KhmerDeleteManufacturerReq ==
    \E id \in ManufacturerIds :
        Apply("KhmerProductsDB.delete_manufacturer", KhmerProductsDB_delete_manufacturer(DB, id))

GetStatsReq ==
    \E body \in get_stats(DB) :
        Apply("get_stats", Outcome(DB, [Resp(200, "stats") EXCEPT !.rows = <<body>>]))

\* add_product requests while fewer than limit products were ever inserted
AddProductsReq(bodies, limit) ==
    \E data \in bodies :
        /\ sqlite_sequence.products < limit
        /\ Apply("add_product", add_product(DB, now, data))

KhmerSearchProductsReq(terms) ==
    \E search_term \in terms :
        \E listed \in search_products(DB, search_term) :
            Apply("search_products", Outcome(DB, [Resp(200, "products") EXCEPT !.rows = listed]))

----------------------------------------------------------------------------
(* Manufacturers and the products that reference them.                       *)

M_m == Txt(<<"m">>)
M_n == Txt(<<"n">>)
T_a == Txt(<<"a">>)
T_c == Txt(<<"c">>)
T_d == Txt(<<"d">>)
Empty == Txt(<<>>)

ManufacturerBodies ==
    {NoJson,
     JsonObject([description |-> T_d]),
     JsonObject([name |-> Null]),
     JsonObject([name |-> M_m]),
     JsonObject([name |-> M_n])}

ManufacturerForms ==
    {[description |-> T_d],
     [name |-> Empty],
     [name |-> M_m],
     [name |-> M_n, description |-> T_d]}

RejectedUploads == {NoUpload, Upload(<<"x", ".", "e", "x", "e">>)}

SheetRow(name) ==
    [name |-> name, description |-> Null, logo_path |-> Empty,
     business_name |-> Empty, business_address |-> Empty,
     business_contact |-> Empty, business_social_network |-> Empty]

ManufacturerSheets ==
    {<<SheetRow(M_m)>>, <<SheetRow(M_n), SheetRow(M_n)>>, <<SheetRow(Null), SheetRow(M_m)>>}

ReferencingBodies ==
    {JsonObject([name |-> T_a, category |-> T_c, manufacturer_id |-> Num(id)]) : id \in 1..2}

ReferencingForms ==
    {[name |-> T_a, category |-> T_c, manufacturer_id |-> Txt(id)] : id \in {<<"1">>, <<"2">>}}

NextManufacturers ==
    \/ AddManufacturerReq(ManufacturerBodies)
    \/ KhmerAddManufacturerReq({M_n})
    \/ UpdateManufacturerReq(ManufacturerForms, RejectedUploads)
    \/ DeleteManufacturerReq
    \/ ImportManufacturersReq(ManufacturerSheets)
    \/ AddProductReq(ReferencingBodies)
    \/ UpdateProductReq(ReferencingForms, {NoUpload})
    \/ DeleteProductReq

SpecManufacturers == Init /\ [][NextManufacturers]_vars

----------------------------------------------------------------------------
(* Categories and the products that carry a category string.                 *)

T_C == Txt(<<"C">>)

CategoryBodies ==
    {NoJson,
     JsonObject([title |-> T_c]),
     JsonObject([name |-> Null]),
     JsonObject([name |-> Num(5)]),
     JsonObject([name |-> Empty]),
     JsonObject([name |-> Txt(<<" ">>)]),
     JsonObject([name |-> Txt(<<" ", "c", " ">>)]),
     JsonObject([name |-> T_C]),
     JsonObject([name |-> Txt(<<"d", " ">>)])}

CategorizedBodies ==
    {JsonObject([name |-> T_a, category |-> c, manufacturer_id |-> Null]) : c \in {T_c, T_C, T_d}}

CategorizedForms ==
    {[name |-> T_a, category |-> c, manufacturer_id |-> Txt(<<"1">>)] : c \in {T_c, T_C}}

NextCategories ==
    \/ AddCategoryReq(CategoryBodies)
    \/ DeleteCategoryReq
    \/ AddProductReq(CategorizedBodies)
    \/ UpdateProductReq(CategorizedForms, {NoUpload})
    \/ DeleteProductReq

SpecCategories == Init /\ [][NextCategories]_vars

----------------------------------------------------------------------------
(* Products: creation, retrieval by id, listing and search.                  *)

T_A == Txt(<<"A">>)
T_b == Txt(<<"b">>)

ProductBodies ==
    {NoJson,
     JsonObject([name |-> T_a, category |-> T_c]),
     JsonObject([category |-> T_c, manufacturer_id |-> Num(1)]),
     JsonObject([name |-> Null, category |-> T_c, manufacturer_id |-> Num(1)]),
     JsonObject([name |-> Empty, category |-> T_c, manufacturer_id |-> Num(1)]),
     JsonObject([name |-> T_a, category |-> Empty, manufacturer_id |-> Num(1)]),
     JsonObject([name |-> T_a, category |-> T_c, manufacturer_id |-> Null]),
     JsonObject([name |-> T_a, category |-> T_c, manufacturer_id |-> Num(1)]),
     JsonObject([name |-> T_A, category |-> T_d, manufacturer_id |-> Num(1),
                 description |-> T_b, image_path |-> Txt(<<"i">>)]),
     JsonObject([name |-> T_b, category |-> T_c, manufacturer_id |-> Num(2),
                 description |-> Txt(<<"x", "%">>)])}

NoFilter == [category |-> Null, manufacturer |-> Null, search |-> Null]

SearchTerms == {<<"a">>, <<"A">>, <<"x">>, <<"c">>, <<"m">>, <<"%">>, <<"_">>}

ProductQueries ==
    {NoFilter,
     [NoFilter EXCEPT !.category = T_c],
     [NoFilter EXCEPT !.manufacturer = M_m],
     [NoFilter EXCEPT !.category = T_c, !.manufacturer = M_m],
     [NoFilter EXCEPT !.category = T_c, !.search = T_a],
     [NoFilter EXCEPT !.category = T_c, !.search = Txt(<<"_">>)]}
        \cup {[NoFilter EXCEPT !.search = Txt(s)] : s \in SearchTerms}

NextProducts ==
    \/ AddManufacturerReq({JsonObject([name |-> M_m])})
    \/ AddProductReq(ProductBodies)
    \/ DeleteProductReq
    \/ GetProductReq
    \/ GetProductsReq(ProductQueries)
    \/ KhmerSearchProductsReq(SearchTerms)

SpecProducts == Init /\ [][NextProducts]_vars

----------------------------------------------------------------------------
(* Requests served concurrently, each on a connection of its own             *)
(* (get_db_connection). sqlite3 runs a SELECT outside any transaction and    *)
(* opens one only before INSERT, UPDATE or DELETE, so a handler is a         *)
(* sequence of steps, one per statement, and other requests' commits fall    *)
(* between them. A single-row SELECT is finished by fetchone() and holds no  *)
(* lock afterwards. A handler whose only statement is a write is one step.   *)

\* send thread t's response; its request is over
Respond(t, op, r) ==
    /\ resp' = [r EXCEPT !.op = op]
    /\ pc' = [pc EXCEPT ![t] = "idle"]
    /\ local' = [local EXCEPT ![t] = NoLocal]

\* thread t moves on to its next statement
Goto(t, label, l) ==
    /\ pc' = [pc EXCEPT ![t] = label]
    /\ local' = [local EXCEPT ![t] = l]
    /\ UNCHANGED resp

\* delete_manufacturer: SELECT name FROM manufacturers WHERE id = ?
DeleteManufacturerSelect(t) ==
    \E id \in ManufacturerIds :
        LET found == {m \in manufacturers : m.id = id}
        IN  /\ pc[t] = "idle"
            /\ IF found = {}
               THEN Respond(t, "delete_manufacturer", Resp(404, "Manufacturer not found"))
               ELSE Goto(t, "delete_manufacturer_count",
                         [NoLocal EXCEPT !.id = id, !.name = (CHOOSE m \in found : TRUE).name])
            /\ UNCHANGED <<manufacturers, products, categories, sqlite_sequence, files, now>>

\* delete_manufacturer: SELECT COUNT(*) FROM products WHERE manufacturer_id = ?
DeleteManufacturerCount(t) ==
    LET product_count == CountByManufacturer(DB, local[t].id)
    IN  /\ pc[t] = "delete_manufacturer_count"
        /\ IF product_count > 0
           THEN Respond(t, "delete_manufacturer",
                        [Resp(400, "Cannot delete manufacturer") EXCEPT !.count = product_count])
           ELSE Goto(t, "delete_manufacturer_delete", local[t])
        /\ UNCHANGED <<manufacturers, products, categories, sqlite_sequence, files, now>>

\* delete_manufacturer: DELETE FROM manufacturers WHERE id = ?; commit
DeleteManufacturerDelete(t) ==
    /\ pc[t] = "delete_manufacturer_delete"
    /\ manufacturers' = {m \in manufacturers : m.id # local[t].id}
    /\ Respond(t, "delete_manufacturer", Resp(200, "Manufacturer deleted successfully"))
    /\ UNCHANGED <<products, categories, sqlite_sequence, files, now>>

\* delete_category: SELECT name FROM categories WHERE id = ?
DeleteCategorySelect(t) ==
    \E id \in CategoryIds :
        LET found == {c \in categories : c.id = id}
        IN  /\ pc[t] = "idle"
            /\ IF found = {}
               THEN Respond(t, "delete_category", Resp(404, "Category not found"))
               ELSE Goto(t, "delete_category_count",
                         [NoLocal EXCEPT !.id = id, !.name = (CHOOSE c \in found : TRUE).name])
            /\ UNCHANGED <<manufacturers, products, categories, sqlite_sequence, files, now>>

\* delete_category: SELECT COUNT(*) FROM products WHERE category = ?
DeleteCategoryCount(t) ==
    LET product_count == CountByCategory(DB, local[t].name)
    IN  /\ pc[t] = "delete_category_count"
        /\ IF product_count > 0
           THEN Respond(t, "delete_category",
                        [Resp(409, "Cannot delete category") EXCEPT !.count = product_count])
           ELSE Goto(t, "delete_category_delete", local[t])
        /\ UNCHANGED <<manufacturers, products, categories, sqlite_sequence, files, now>>

\* delete_category: DELETE FROM categories WHERE id = ?; commit
DeleteCategoryDelete(t) ==
    /\ pc[t] = "delete_category_delete"
    /\ categories' = {c \in categories : c.id # local[t].id}
    /\ Respond(t, "delete_category", Resp(200, "Category deleted successfully"))
    /\ UNCHANGED <<manufacturers, products, sqlite_sequence, files, now>>

\* update_product: SELECT * FROM products WHERE id = ?, the form read and checked,
\* the upload saved
UpdateProductSelect(t, forms, uploads) ==
    \E id \in ProductIds, form \in forms, upload \in uploads :
        LET found == {p \in products : p.id = id}
            name == FormGet(form, "name")
            saved == UploadAccepted(upload)
            path == ProductDir \o UpdateFilename(name.s, now, upload)
        IN  /\ pc[t] = "idle"
            /\ IF found = {}
               THEN Respond(t, "update_product", Resp(404, "Product not found")) /\ UNCHANGED files
               ELSE IF ~(Truthy(name) /\ Truthy(FormGet(form, "category"))
                           /\ Truthy(FormGet(form, "manufacturer_id")))
               THEN /\ Respond(t, "update_product",
                               Resp(400, "Name, category, and manufacturer are required"))
                    /\ UNCHANGED files
               ELSE /\ Goto(t, "update_product_update",
                            [NoLocal EXCEPT !.id = id, !.form = form,
                                !.image_path = IF saved THEN Txt(path)
                                               ELSE (CHOOSE p \in found : TRUE).image_path])
                    /\ files' = IF saved THEN files \cup {path} ELSE files
            /\ UNCHANGED <<manufacturers, products, categories, sqlite_sequence, now>>

\* update_product: UPDATE products SET ... WHERE id = ?; commit
UpdateProductUpdate(t) ==
    LET form == local[t].form
    IN  /\ pc[t] = "update_product_update"
        /\ products' = UpdateProductRow(DB, local[t].id, FormGet(form, "name"),
                           FormGet(form, "category"), FormGet(form, "manufacturer_id"),
                           FormGetOr(form, "description"), local[t].image_path).products
        /\ Respond(t, "update_product",
                   [Resp(200, "Product updated successfully") EXCEPT !.id = local[t].id])
        /\ UNCHANGED <<manufacturers, categories, sqlite_sequence, files, now>>

\* a store with one manufacturer and one category, as add_manufacturer and
\* add_category leave it
InitConc ==
    /\ manufacturers = add_manufacturer(EmptyDB, 0, JsonObject([name |-> M_m])).db.manufacturers
    /\ categories = add_category(EmptyDB, 0, JsonObject([name |-> T_c])).db.categories
    /\ products = {}
    /\ sqlite_sequence = [manufacturers |-> 1, products |-> 0, categories |-> 1]
    /\ files = {}
    /\ now = 0
    /\ resp = Resp(0, "")
    /\ pc = [t \in Threads |-> "idle"]
    /\ local = [t \in Threads |-> NoLocal]

ConcBodies ==
    {JsonObject([name |-> T_a, category |-> c, manufacturer_id |-> Num(1)]) : c \in {T_c, T_d}}

ConcForms ==
    {[name |-> T_a, category |-> T_c, manufacturer_id |-> Txt(<<"1">>)],
     [name |-> T_a, category |-> T_d, manufacturer_id |-> Txt(<<"2">>)]}

NextConc ==
    \/ AddProductReq(ConcBodies)
    \/ \E t \in Threads :
          \/ DeleteManufacturerSelect(t)
          \/ DeleteManufacturerCount(t)
          \/ DeleteManufacturerDelete(t)
          \/ DeleteCategorySelect(t)
          \/ DeleteCategoryCount(t)
          \/ DeleteCategoryDelete(t)
          \/ UpdateProductSelect(t, ConcForms, {NoUpload})
          \/ UpdateProductUpdate(t)

SpecConc == InitConc /\ [][NextConc]_vars

----------------------------------------------------------------------------
(* Claims about manufacturers, checked under SpecManufacturers.              *)

Failed(o) == o.resp.status \notin {200, 201}

\* C1: delete_manufacturer(id) on an existing manufacturer with at least one product
\* whose manufacturer_id is id answers the in-use error carrying the number of those
\* products and leaves every manufacturer and product row as it was; with no such
\* product it succeeds and removes exactly that manufacturer row; with no row of that
\* id it answers not-found and changes nothing.
C1_DeleteManufacturer ==
    \A id \in ManufacturerIds :
        LET o == delete_manufacturer(DB, id)
            row == {m \in manufacturers : m.id = id}
            dependents == {p \in products : p.manufacturer_id = Num(id)}
        IN  /\ (row # {} /\ dependents # {}) =>
                  /\ o.resp.status = 400
                  /\ o.resp.msg = "Cannot delete manufacturer"
                  /\ o.resp.count = Cardinality(dependents)
                  /\ o.db = DB
            /\ (row # {} /\ dependents = {}) =>
                  /\ o.resp.status = 200
                  /\ Cardinality(row) = 1
                  /\ o.db.manufacturers = manufacturers \ row
                  /\ o.db.products = products
                  /\ o.db.categories = categories
            /\ row = {} =>
                  /\ o.resp.status = 404
                  /\ o.db = DB

\* C1 witness: a delete was refused because two products reference the manufacturer,
\* which is still stored
C1_Witness ==
    /\ resp.op = "delete_manufacturer"
    /\ resp.status = 400
    /\ resp.count = 2
    /\ \E m \in manufacturers :
          Cardinality({p \in products : p.manufacturer_id = Num(m.id)}) = 2

\* C3: add_manufacturer called twice with the same name, not yet stored: the first call
\* answers 201, the second fails with the duplicate signal (the UNIQUE violation; a
\* ValueError from KhmerProductsDB) and the store then holds exactly one row of that
\* name, the one the first call created, unchanged.
C3_AddManufacturerTwice ==
    \A b1, b2 \in ManufacturerBodies :
        (/\ Has(b1, "name") /\ Has(b2, "name")
         /\ IsTxt(b1.f["name"]) /\ b1.f["name"] = b2.f["name"]
         /\ ~\E m \in manufacturers : m.name = b1.f["name"]) =>
            LET o1 == add_manufacturer(DB, now, b1)
                o2 == add_manufacturer(o1.db, now, b2)
                k1 == KhmerProductsDB_add_manufacturer(DB, now, b1.f["name"], Null, Null)
                k2 == KhmerProductsDB_add_manufacturer(k1.db, now, b2.f["name"], Null, Null)
                Named(db) == {m \in db.manufacturers : m.name = b1.f["name"]}
            IN  /\ o1.resp.status = 201
                /\ Failed(o2)
                /\ o2.resp.msg = "UNIQUE constraint failed: manufacturers.name"
                /\ o2.db = o1.db
                /\ Cardinality(Named(o2.db)) = 1
                /\ \A m \in Named(o2.db) : m.id = o1.resp.id /\ m \in o1.db.manufacturers
                /\ k1.resp.status = 200
                /\ k2.resp.msg = "ValueError: Manufacturer already exists"
                /\ k2.db = k1.db
                /\ Cardinality(Named(k2.db)) = 1
                /\ \A m \in Named(k2.db) : m.id = k1.resp.id

\* C3 witness: a second add_manufacturer of a stored name was answered with the
\* UNIQUE violation, and one row carries the name
C3_Witness ==
    /\ resp.op = "add_manufacturer"
    /\ resp.msg = "UNIQUE constraint failed: manufacturers.name"
    /\ Cardinality({m \in manufacturers : m.name = M_m}) = 1
    /\ sqlite_sequence.manufacturers = 1

\* C4: no two manufacturer rows share a name, in every state add, update, delete and
\* import reach; and update_manufacturer to a name another manufacturer holds fails
\* and leaves the table as it was.
C4_UniqueManufacturerNames ==
    /\ \A m1, m2 \in manufacturers : (m1.name = m2.name \/ m1.id = m2.id) => m1 = m2
    /\ \A id \in ManufacturerIds, form \in ManufacturerForms, upload \in RejectedUploads :
          (/\ \E m \in manufacturers : m.id = id
           /\ "name" \in DOMAIN form
           /\ \E m \in manufacturers : m.id # id /\ m.name = form["name"]) =>
              LET o == update_manufacturer(DB, now, id, form, upload)
              IN  Failed(o) /\ o.db = DB

\* C4 witness: an update_manufacturer to the other row's name was refused, both rows stored
C4_Witness ==
    /\ resp.op = "update_manufacturer"
    /\ resp.msg = "UNIQUE constraint failed: manufacturers.name"
    /\ Cardinality(manufacturers) = 2

----------------------------------------------------------------------------
(* Claims about concurrent requests, checked under SpecConc.                 *)

\* C2: a guarded delete's check and its DELETE act as one unit: when
\* delete_manufacturer (delete_category) commits its DELETE and reports success, no
\* committed product references the deleted manufacturer (carries the deleted
\* category's name).
C2_GuardedDeleteIsAtomic ==
    [][\A t \in Threads :
          /\ (pc[t] = "delete_manufacturer_delete" /\ pc'[t] = "idle") =>
                ~\E p \in products' : p.manufacturer_id = Num(local[t].id)
          /\ (pc[t] = "delete_category_delete" /\ pc'[t] = "idle") =>
                ~\E p \in products' : p.category = local[t].name]_vars

----------------------------------------------------------------------------
(* Claims about categories, checked under SpecCategories.                    *)

\* C5: delete_category(id) answers not-found when no category has that id; when N >= 1
\* products carry the category's name it answers the in-use error with count N and the
\* category stays; when N = 0 it removes exactly that category row. It never changes
\* a product.
C5_DeleteCategory ==
    \A id \in CategoryIds :
        LET o == delete_category(DB, id)
            row == {c \in categories : c.id = id}
            N == Cardinality({p \in products : \E c \in row : p.category = c.name})
        IN  /\ o.db.products = products
            /\ o.db.manufacturers = manufacturers
            /\ row = {} => o.resp.status = 404 /\ o.db = DB
            /\ (row # {} /\ N >= 1) =>
                  /\ o.resp.status = 409
                  /\ o.resp.msg = "Cannot delete category"
                  /\ o.resp.count = N
                  /\ o.db = DB
            /\ (row # {} /\ N = 0) =>
                  /\ o.resp.status = 200
                  /\ Cardinality(row) = 1
                  /\ o.db.categories = categories \ row

\* C5 witness: a delete was refused with count 2, two products carrying that category
C5_Witness ==
    /\ resp.op = "delete_category"
    /\ resp.status = 409
    /\ resp.count = 2
    /\ \E c \in categories : Cardinality({p \in products : p.category = c.name}) = 2

\* t is s without its leading and trailing spaces
IsTrimOf(t, s) ==
    /\ \E i \in 0..(Len(s) - Len(t)) :
          /\ \A k \in 1..Len(t) : t[k] = s[i + k]
          /\ \A k \in 1..Len(s) : (k <= i \/ k > i + Len(t)) => s[k] = " "
    /\ t # <<>> => (t[1] # " " /\ t[Len(t)] # " ")

\* C6: add_category trims the name before it checks and stores: an empty trimmed name
\* is answered 400 and a trimmed name equal (case-sensitively) to a stored one 409,
\* neither adding a row; any other adds exactly one row, named by the trimmed value.
\* Category names are unique in every state add_category and delete_category reach.
C6_AddCategoryTrims ==
    /\ \A c1, c2 \in categories : (c1.name = c2.name \/ c1.id = c2.id) => c1 = c2
    /\ \A data \in CategoryBodies :
          (Has(data, "name") /\ IsTxt(data.f["name"])) =>
              LET o == add_category(DB, now, data)
                  added == o.db.categories \ categories
                  given == data.f["name"].s
                  trimmed == CHOOSE t \in {<<>>} \cup {SubSeq(given, i, j) :
                                               i \in 1..Len(given), j \in 1..Len(given)} :
                                 IsTrimOf(t, given)
              IN  /\ o.db.products = products /\ o.db.manufacturers = manufacturers
                  /\ categories \subseteq o.db.categories
                  /\ IF trimmed = <<>>
                     THEN o.resp.status = 400 /\ added = {}
                     ELSE IF \E c \in categories : c.name = Txt(trimmed)
                     THEN o.resp.status = 409 /\ added = {}
                     ELSE /\ o.resp.status = 201
                          /\ Cardinality(added) = 1
                          /\ \A c \in added :
                                /\ c.name = Txt(trimmed)
                                /\ c.id = o.resp.id
                                /\ c.id \notin {x.id : x \in categories}

\* C6 witness: category "c", stored from the name " c ", refused a second time
C6_Witness ==
    /\ resp.op = "add_category"
    /\ resp.status = 409
    /\ \E c \in categories : c.name = T_c

----------------------------------------------------------------------------
(* Claims about products, checked under SpecProducts.                        *)

\* v is a text that contains s as a literal substring, letter case ignored
Contains(v, s) ==
    /\ IsTxt(v)
    /\ \E i \in 0..(Len(v.s) - Len(s)) : \A k \in 1..Len(s) : LowerChar(v.s[i + k]) = LowerChar(s[k])

Present(v) == IsTxt(v) /\ v.s # <<>>

\* p passes every filter of args that is present
Satisfies(p, args) ==
    /\ Present(args.category) => p.category = args.category
    /\ Present(args.manufacturer) =>
          \E m \in manufacturers : p.manufacturer_id = Num(m.id) /\ m.name = args.manufacturer
    /\ Present(args.search) =>
          Contains(p.name, args.search.s) \/ Contains(p.description, args.search.s)

IdsOf(listed) == {listed[i].id : i \in 1..Len(listed)}

\* C7: get_products returns exactly the products that pass every present filter
\* (category equality, manufacturer-name equality, literal substring search), each
\* once, in non-decreasing order of name; with no filter it returns every product.
C7_ListProducts ==
    \A args \in ProductQueries :
        /\ get_products(DB, args) # {}
        /\ \A listed \in get_products(DB, args) :
              /\ IdsOf(listed) = {p.id : p \in {x \in products : Satisfies(x, args)}}
              /\ Len(listed) = Cardinality(IdsOf(listed))
              /\ \A i, j \in 1..Len(listed) :
                    i < j => ~TextLess(listed[j].name.s, listed[i].name.s)

\* C8: a search for s returns exactly the products whose name or description contains s
\* as a literal substring, letter case ignored: a wildcard character in s matches only
\* itself, and neither the category nor the manufacturer's name is searched.
C8_SearchIsLiteral ==
    \A s \in SearchTerms :
        LET expected == {p.id : p \in {x \in products :
                                           Contains(x.name, s) \/ Contains(x.description, s)}}
        IN  /\ \A listed \in get_products(DB, [NoFilter EXCEPT !.search = Txt(s)]) :
                  IdsOf(listed) = expected
            /\ \A listed \in search_products(DB, s) : IdsOf(listed) = expected

\* name, category and manufacturer_id of a well-formed request: two non-empty texts and an integer
ValidTriple(data) ==
    /\ data.kind = "dict"
    /\ Has(data, "name") /\ Present(data.f["name"])
    /\ Has(data, "category") /\ Present(data.f["category"])
    /\ Has(data, "manufacturer_id") /\ IsInt(data.f["manufacturer_id"])

\* C9: for a valid (name, category, manufacturer_id), add_product succeeds and get_product
\* of the returned id yields those values, the description and image_path supplied or ''
\* when omitted, and a creation timestamp that is not null; the id is no earlier product's.
C9_AddThenGetProduct ==
    \A data \in ProductBodies :
        (ValidTriple(data) /\ sqlite_sequence.products < MaxProducts) =>
            LET o == add_product(DB, now, data)
                g == get_product(o.db, o.resp.id)
            IN  /\ o.resp.status = 201
                /\ o.resp.id \notin {p.id : p \in products}
                /\ g.resp.status = 200
                /\ Len(g.resp.rows) = 1
                /\ LET r == g.resp.rows[1]
                   IN  /\ r.id = o.resp.id
                       /\ r.name = data.f["name"]
                       /\ r.category = data.f["category"]
                       /\ r.manufacturer_id = data.f["manufacturer_id"]
                       /\ r.description = IF Has(data, "description")
                                          THEN data.f["description"] ELSE Empty
                       /\ r.image_path = IF Has(data, "image_path")
                                         THEN data.f["image_path"] ELSE Empty
                       /\ ~IsNull(r.created_at)
                /\ o.db.products \ products = {p \in o.db.products : p.id = o.resp.id}
                /\ products \subseteq o.db.products

\* C9 witness: product 2, added after product 1 was deleted, read back with the
\* description it was given no value for
C9_Witness ==
    /\ resp.op = "get_product"
    /\ resp.status = 200
    /\ resp.rows[1].id = 2
    /\ resp.rows[1].name = T_a
    /\ resp.rows[1].manufacturer_id = Num(1)
    /\ resp.rows[1].manufacturer_name = M_m
    /\ resp.rows[1].description = Empty
    /\ ~IsNull(resp.rows[1].created_at)
    /\ Cardinality(products) = 1

\* a required field that is missing, null or empty
Absent(data, key) == ~Has(data, key) \/ IsNull(data.f[key]) \/ data.f[key] = Empty

\* C10: whenever the request has no body, or name, category or manufacturer_id is
\* missing, null or empty, add_product answers 400 "Missing required fields" and
\* inserts no row.
C10_AddProductRequiresFields ==
    \A data \in ProductBodies :
        (\/ data.kind = "none"
         \/ Absent(data, "name") \/ Absent(data, "category") \/ Absent(data, "manufacturer_id")) =>
            LET o == add_product(DB, now, data)
            IN  /\ o.resp.status = 400
                /\ o.resp.msg = "Missing required fields"
                /\ o.db = DB

----------------------------------------------------------------------------
(* Updates of products and manufacturers, with the clock advancing.          *)

T_Bx == Txt(<<"B", "!">>)
PngUpload == Upload(<<"p", ".", "P", "N", "G">>)
ExeUpload == Upload(<<"x", ".", "e", "x", "e">>)
UnnamedUpload == Upload(<<>>)

UpdateUploads == {NoUpload, UnnamedUpload, ExeUpload, PngUpload}

ProductUpdateForms ==
    {[name |-> T_a, category |-> T_c],
     [name |-> T_a, category |-> T_c, manufacturer_id |-> Txt(<<"1">>)],
     [name |-> T_Bx, category |-> T_d, manufacturer_id |-> Txt(<<"2">>), description |-> T_b]}

ManufacturerUpdateForms ==
    {[description |-> T_d],
     [name |-> M_m],
     [name |-> M_n, description |-> T_d]}

\* one manufacturer and one product, then updates of them as time passes
NextUpdates ==
    \/ sqlite_sequence.manufacturers = 0 /\ AddManufacturerReq({JsonObject([name |-> M_m])})
    \/ sqlite_sequence.products = 0 /\
          AddProductReq({JsonObject([name |-> T_b, category |-> T_c, manufacturer_id |-> Num(1)])})
    \/ UpdateProductReq(ProductUpdateForms, UpdateUploads)
    \/ UpdateManufacturerReq(ManufacturerUpdateForms, UpdateUploads)
    \/ Tick

SpecUpdates == Init /\ [][NextUpdates]_vars

----------------------------------------------------------------------------
(* Claims about updates, checked under SpecUpdates.                          *)

\* the value a form text takes in an INTEGER column of the claim's record
AsStored(v) == IF IsNatLiteral(v.s) THEN Num(TextToNat(v.s)) ELSE v

\* C11: a successful update_product or update_manufacturer replaces the listed fields,
\* keeps the row's id and created_at, and sets updated_at to the time of the update.
C11_UpdateRefreshesTimestamp ==
    /\ \A id \in ProductIds, form \in ProductUpdateForms, upload \in UpdateUploads :
          LET o == update_product(DB, now, id, form, upload)
          IN  o.resp.status = 200 =>
                 \A p \in products : p.id = id =>
                    \E q \in o.db.products :
                       /\ q.id = id
                       /\ q.created_at = p.created_at
                       /\ q.name = form.name
                       /\ q.category = form.category
                       /\ q.manufacturer_id = AsStored(form.manufacturer_id)
                       /\ q.description = FormGetOr(form, "description")
                       /\ q.updated_at = Num(now)
    /\ \A id \in ManufacturerIds, form \in ManufacturerUpdateForms, upload \in UpdateUploads :
          LET o == update_manufacturer(DB, now, id, form, upload)
          IN  o.resp.status = 200 =>
                 \A m \in manufacturers : m.id = id =>
                    \E q \in o.db.manufacturers :
                       /\ q.id = id
                       /\ q.created_at = m.created_at
                       /\ q.name = form.name
                       /\ q.description = FormGetOr(form, "description")
                       /\ q.updated_at = Num(now)

\* C12: an update without an accepted upload leaves image_path (logo_path) as it was,
\* whatever else it changes; with an accepted upload the stored path becomes the path of
\* the one file the update wrote, under the handler's directory.
C12_PathKeptWithoutUpload ==
    /\ \A id \in ProductIds, form \in ProductUpdateForms, upload \in UpdateUploads :
          LET o == update_product(DB, now, id, form, upload)
          IN  \A p \in products, q \in o.db.products : (p.id = id /\ q.id = id) =>
                 IF upload = PngUpload /\ o.resp.status = 200
                 THEN /\ o.written = {q.image_path.s}
                      /\ SubSeq(q.image_path.s, 1, Len(ProductDir)) = ProductDir
                 ELSE q.image_path = p.image_path
    /\ \A id \in ManufacturerIds, form \in ManufacturerUpdateForms, upload \in UpdateUploads :
          LET o == update_manufacturer(DB, now, id, form, upload)
          IN  \A m \in manufacturers, q \in o.db.manufacturers : (m.id = id /\ q.id = id) =>
                 IF upload = PngUpload /\ o.resp.status = 200
                 THEN /\ o.written = {q.logo_path.s}
                      /\ SubSeq(q.logo_path.s, 1, Len(ManufacturersDir)) = ManufacturersDir
                 ELSE q.logo_path = m.logo_path

\* C12 witness: the product, renamed "a" by an update without upload, still carries the
\* image written when it was updated under the name "B!"
C12_Witness ==
    /\ resp.op = "update_product"
    /\ resp.status = 200
    /\ \E p \in products :
          /\ p.name = T_a
          /\ p.image_path = Txt(ProductDir \o <<"b", "_", "0", ".", "p", "n", "g">>)
          /\ p.image_path.s \in files

----------------------------------------------------------------------------
(* Every write handler over the three tables.                                *)

WriteManufacturerBodies == {JsonObject([name |-> M_m]), JsonObject([name |-> M_n])}
WriteManufacturerForms == {[description |-> T_d], [name |-> M_n]}
WriteProductBodies ==
    {JsonObject([name |-> T_a, category |-> T_c]),
     JsonObject([name |-> Null, category |-> T_c, manufacturer_id |-> Num(1)]),
     JsonObject([name |-> T_a, category |-> T_c, manufacturer_id |-> Num(1)])}
WriteProductForms ==
    {[name |-> T_a, category |-> T_c],
     [name |-> T_b, category |-> T_c, manufacturer_id |-> Txt(<<"2">>)]}
WriteCategoryBodies ==
    {NoJson, JsonObject([name |-> Txt(<<" ">>)]), JsonObject([name |-> T_c])}

NextWrites ==
    \/ AddManufacturerReq(WriteManufacturerBodies)
    \/ UpdateManufacturerReq(WriteManufacturerForms, {NoUpload})
    \/ DeleteManufacturerReq
    \/ AddProductReq(WriteProductBodies)
    \/ UpdateProductReq(WriteProductForms, {NoUpload})
    \/ DeleteProductReq
    \/ sqlite_sequence.categories = 0 /\ AddCategoryReq(WriteCategoryBodies)
    \/ DeleteCategoryReq

SpecWrites == Init /\ [][NextWrites]_vars

----------------------------------------------------------------------------
(* Claims about the write handlers, checked under SpecWrites.                *)

\* C13: delete_product(id) answers 404 and changes nothing when no product has the id;
\* otherwise it answers 200 and removes exactly that product, whatever references it
\* holds, leaving the other products, the manufacturers and the categories as they were.
C13_DeleteProduct ==
    \A id \in ProductIds :
        LET o == delete_product(DB, id)
            row == {p \in products : p.id = id}
        IN  /\ o.db.manufacturers = manufacturers
            /\ o.db.categories = categories
            /\ o.written = {}
            /\ row = {} => (o.resp.status = 404 /\ o.db = DB)
            /\ row # {} =>
                  /\ o.resp.status = 200
                  /\ Cardinality(row) = 1
                  /\ o.db.products = products \ row

\* C13 witness: a product of category "c" was deleted while another product of that
\* category, its manufacturer and the category row remain
C13_Witness ==
    /\ resp.op = "delete_product"
    /\ resp.status = 200
    /\ \E p \in products : p.category = T_c /\ \E m \in manufacturers : p.manufacturer_id = Num(m.id)
    /\ sqlite_sequence.products = 2
    /\ \E c \in categories : c.name = T_c

\* the three tables are as they were before the call
TablesKept(o) ==
    /\ o.db.manufacturers = manufacturers
    /\ o.db.products = products
    /\ o.db.categories = categories

\* C17: an add, update or delete of a product, manufacturer or category that answers
\* with an error status (4xx or 5xx) leaves the three tables exactly as they were;
\* only a file written for an upload may remain.
C17_AllOrNothing ==
    /\ \A data \in WriteProductBodies \cup {NoJson} :
          Failed(add_product(DB, now, data)) => TablesKept(add_product(DB, now, data))
    /\ \A data \in WriteManufacturerBodies \cup {NoJson, JsonObject([name |-> Null])} :
          Failed(add_manufacturer(DB, now, data)) => TablesKept(add_manufacturer(DB, now, data))
    /\ \A data \in WriteCategoryBodies \cup {JsonObject([name |-> Num(5)])} :
          Failed(add_category(DB, now, data)) => TablesKept(add_category(DB, now, data))
    /\ \A id \in ProductIds, form \in WriteProductForms, upload \in UpdateUploads :
          Failed(update_product(DB, now, id, form, upload)) =>
              TablesKept(update_product(DB, now, id, form, upload))
    /\ \A id \in ManufacturerIds, form \in WriteManufacturerForms, upload \in UpdateUploads :
          Failed(update_manufacturer(DB, now, id, form, upload)) =>
              TablesKept(update_manufacturer(DB, now, id, form, upload))
    /\ \A id \in ProductIds : Failed(delete_product(DB, id)) => TablesKept(delete_product(DB, id))
    /\ \A id \in ManufacturerIds :
          Failed(delete_manufacturer(DB, id)) => TablesKept(delete_manufacturer(DB, id))
    /\ \A id \in CategoryIds :
          Failed(delete_category(DB, id)) => TablesKept(delete_category(DB, id))

\* C17 witness: renaming manufacturer 1 to the name of manufacturer 2 was answered 500,
\* and both rows, a product and a category are in the store
C17_Witness ==
    /\ resp.op = "update_manufacturer"
    /\ resp.status = 500
    /\ \E m1, m2 \in manufacturers : m1.name = M_m /\ m2.name = M_n
    /\ products # {}
    /\ categories # {}

----------------------------------------------------------------------------
(* Statistics over products of several categories.                           *)

MaxStatProducts == MaxProducts + 1

StatBodies ==
    {JsonObject([name |-> T_a, category |-> c, manufacturer_id |-> Num(1)]) : c \in {T_c, T_d}}

NextStats ==
    \/ AddManufacturerReq({JsonObject([name |-> M_m])})
    \/ AddCategoryReq({JsonObject([name |-> T_c]), JsonObject([name |-> T_b])})
    \/ AddProductsReq(StatBodies, MaxStatProducts)
    \/ DeleteProductReq
    \/ GetStatsReq

SpecStats == Init /\ [][NextStats]_vars

RECURSIVE SumCounts(_)
SumCounts(q) == IF q = <<>> THEN 0 ELSE Head(q).count + SumCounts(Tail(q))

\* C14: get_stats reports the number of product rows, the number of manufacturer rows,
\* the number of distinct category strings among the products (whatever the categories
\* table holds) and one breakdown entry per such string with its number of products,
\* the counts non-increasing and summing to total_products.
C14_Stats ==
    /\ get_stats(DB) # {}
    /\ \A body \in get_stats(DB) :
          LET b == body.category_breakdown
              used == {p.category : p \in products}
          IN  /\ body.total_products = Cardinality(products)
              /\ body.total_manufacturers = Cardinality(manufacturers)
              /\ body.total_categories = Cardinality(used)
              /\ Len(b) = Cardinality(used)
              /\ {b[i].category : i \in 1..Len(b)} = used
              /\ \A i \in 1..Len(b) :
                    b[i].count = Cardinality({p \in products : p.category = b[i].category})
              /\ \A i, j \in 1..Len(b) : i < j => b[i].count >= b[j].count
              /\ SumCounts(b) = body.total_products

\* C14 witness: statistics answered for three products in two categories, two of them
\* in the first entry, while the categories table holds another number of rows
C14_Witness ==
    /\ resp.op = "get_stats"
    /\ resp.rows[1].total_products = 3
    /\ resp.rows[1].total_categories = 2
    /\ resp.rows[1].category_breakdown[1].count = 2
    /\ resp.rows[1].total_manufacturers = 1
    /\ Cardinality(categories) # 2

----------------------------------------------------------------------------
(* get_stats statement by statement, among requests that add and delete      *)
(* products. Its four SELECTs run outside any transaction, so each reads     *)
(* the store as it is when the statement runs.                               *)

\* get_stats: SELECT COUNT(*) FROM products
GetStatsProducts(t) ==
    /\ pc[t] = "idle"
    /\ Goto(t, "get_stats_manufacturers", [NoLocal EXCEPT !.counts = <<Cardinality(products)>>])
    /\ UNCHANGED <<manufacturers, products, categories, sqlite_sequence, files, now>>

\* get_stats: SELECT COUNT(*) FROM manufacturers
GetStatsManufacturers(t) ==
    /\ pc[t] = "get_stats_manufacturers"
    /\ Goto(t, "get_stats_categories",
            [local[t] EXCEPT !.counts = Append(@, Cardinality(manufacturers))])
    /\ UNCHANGED <<manufacturers, products, categories, sqlite_sequence, files, now>>

\* get_stats: SELECT COUNT(DISTINCT category) FROM products
GetStatsCategories(t) ==
    /\ pc[t] = "get_stats_categories"
    /\ Goto(t, "get_stats_breakdown",
            [local[t] EXCEPT !.counts = Append(@, Cardinality(DistinctCategories(DB)))])
    /\ UNCHANGED <<manufacturers, products, categories, sqlite_sequence, files, now>>

\* get_stats: the GROUP BY query, then the response
GetStatsBreakdown(t) ==
    /\ pc[t] = "get_stats_breakdown"
    /\ \E category_stats \in OrderedByCountDesc(GroupByCategory(DB)) :
          Respond(t, "get_stats",
                  [Resp(200, "stats") EXCEPT !.rows =
                      <<[total_products |-> local[t].counts[1],
                         total_manufacturers |-> local[t].counts[2],
                         total_categories |-> local[t].counts[3],
                         category_breakdown |-> category_stats]>>])
    /\ UNCHANGED <<manufacturers, products, categories, sqlite_sequence, files, now>>

NextStatsConc ==
    \/ AddProductReq(StatBodies)
    \/ DeleteProductReq
    \/ \E t \in Threads :
          \/ GetStatsProducts(t)
          \/ GetStatsManufacturers(t)
          \/ GetStatsCategories(t)
          \/ GetStatsBreakdown(t)

SpecStatsConc == Init /\ [][NextStatsConc]_vars

\* C15: whatever requests interleave with it, the body get_stats returns describes one
\* store state: the breakdown counts sum to total_products and the breakdown has
\* total_categories entries.
C15_StatsDescribeOneState ==
    resp.op = "get_stats" =>
        /\ SumCounts(resp.rows[1].category_breakdown) = resp.rows[1].total_products
        /\ Len(resp.rows[1].category_breakdown) = resp.rows[1].total_categories

----------------------------------------------------------------------------
(* Claims about status codes, checked under SpecManufacturers.               *)

\* C16: in the manufacturer handlers every domain-level failure is answered 4xx and
\* never 500: an unknown id 404, a missing name 400, a deletion blocked by products 400
\* or 409, a name that another manufacturer already has 400 or 409; a creation that
\* succeeds is answered 201 and any other success 200.
C16_DomainFailuresAre4xx ==
    /\ \A data \in {d \in ManufacturerBodies \ {NoJson} : Has(d, "name") => IsTxt(d.f["name"])} :
          LET o == add_manufacturer(DB, now, data)
          IN  IF ~Has(data, "name")
              THEN o.resp.status = 400
              ELSE IF \E m \in manufacturers : m.name = data.f["name"]
              THEN o.resp.status \in {400, 409}
              ELSE o.resp.status = 201
    /\ \A id \in ManufacturerIds, form \in ManufacturerForms, upload \in RejectedUploads :
          LET o == update_manufacturer(DB, now, id, form, upload)
          IN  IF ~\E m \in manufacturers : m.id = id
              THEN o.resp.status = 404
              ELSE IF ~Present(FormGet(form, "name"))
              THEN o.resp.status = 400
              ELSE IF \E m \in manufacturers : m.id # id /\ m.name = form.name
              THEN o.resp.status \in {400, 409}
              ELSE o.resp.status = 200
    /\ \A id \in ManufacturerIds :
          LET o == delete_manufacturer(DB, id)
          IN  IF ~\E m \in manufacturers : m.id = id
              THEN o.resp.status = 404
              ELSE IF \E p \in products : p.manufacturer_id = Num(id)
              THEN o.resp.status \in {400, 409}
              ELSE o.resp.status = 200

----------------------------------------------------------------------------
(* Uploads: the two upload endpoints and the uploads carried by updates.     *)

UploadPool ==
    {NoUpload, UnnamedUpload, ExeUpload, PngUpload,
     Upload(<<"n">>), Upload(<<"x", ".">>), Upload(<<".", "g", "i", "f">>),
     Upload(<<"a", ".", "b", ".", "j", "p", "g">>), Upload(<<"p", "n", "g">>)}

ProductHints == {[other |-> Empty], [product_name |-> T_Bx], [product_name |-> Txt(<<"a", " ", "b">>)]}
ManufacturerHints == {[other |-> Empty], [manufacturer_name |-> T_Bx]}

NextUploads ==
    \/ UploadProductImageReq({NoUpload, ExeUpload, PngUpload}, {[product_name |-> T_Bx]})
    \/ UploadManufacturerLogoReq({UnnamedUpload, PngUpload}, {[other |-> Empty]})
    \/ sqlite_sequence.manufacturers = 0 /\ AddManufacturerReq({JsonObject([name |-> M_m])})
    \/ sqlite_sequence.products = 0 /\
          AddProductReq({JsonObject([name |-> T_b, category |-> T_c, manufacturer_id |-> Num(1)])})
    \/ UpdateProductReq({[name |-> T_Bx, category |-> T_c, manufacturer_id |-> Txt(<<"1">>)]},
                        {ExeUpload, PngUpload})
    \/ UpdateManufacturerReq({[name |-> T_Bx]}, {PngUpload})
    \/ Tick

SpecUploads == Init /\ [][NextUploads]_vars

\* the filename is not empty, holds a '.', and what follows its last '.' is, in lower
\* case, png, jpg, jpeg, gif or webp
HasAllowedExtension(filename) ==
    \E i \in 1..Len(filename) :
        /\ filename[i] = "."
        /\ \A k \in (i + 1)..Len(filename) : filename[k] # "."
        /\ [k \in 1..(Len(filename) - i) |-> LowerChar(filename[i + k])]
              \in {<<"p","n","g">>, <<"j","p","g">>, <<"j","p","e","g">>, <<"g","i","f">>,
                   <<"w","e","b","p">>}

\* C18: an upload endpoint accepts (201, one file written) exactly when a file is sent
\* under a non-empty filename with an allowed extension; otherwise it answers 400 and
\* writes nothing; it never changes the store.
C18_UploadAcceptance ==
    /\ \A upload \in UploadPool, form \in ProductHints :
          LET o == upload_product_image(DB, now, upload, form)
          IN  /\ o.db = DB
              /\ IF upload.sent /\ HasAllowedExtension(upload.filename)
                 THEN o.resp.status = 201 /\ Cardinality(o.written) = 1
                 ELSE o.resp.status = 400 /\ o.written = {}
    /\ \A upload \in UploadPool, form \in ManufacturerHints :
          LET o == upload_manufacturer_logo(DB, now, upload, form)
          IN  /\ o.db = DB
              /\ IF upload.sent /\ HasAllowedExtension(upload.filename)
                 THEN o.resp.status = 201 /\ Cardinality(o.written) = 1
                 ELSE o.resp.status = 400 /\ o.written = {}

\* C18 witness: an upload was refused with 400 after an earlier one had been accepted,
\* and the only file is the accepted one
C18_Witness ==
    /\ resp.op = "upload_product_image"
    /\ resp.status = 400
    /\ resp.msg = "Invalid file type"
    /\ files = {ProductDir \o <<"b", "_", "_", "0", ".", "p", "n", "g">>}

\* the hint in lower case, each character that is not a letter or digit replaced by '_'
Sanitized(hint) ==
    [i \in 1..Len(hint) |->
        IF LowerChar(hint[i]) \in Range(LowerLetters) \cup Range(Digits)
        THEN LowerChar(hint[i]) ELSE "_"]

\* the filename built from a hint, a separator, the time in seconds and the extension
Constructed(hint, separator, t, filename) ==
    Sanitized(hint) \o separator \o NatToText(t) \o <<".">> \o Lower(AfterLastDot(filename))

UploadingForms ==
    {[name |-> n, category |-> T_c, manufacturer_id |-> Txt(<<"1">>)] :
        n \in {T_a, T_Bx, Txt(<<"a", " ", "b">>)}}

\* C19: an accepted upload is written, and its path returned or stored, as the
\* handler's directory followed by the sanitized hint, the time in seconds and the
\* extension, in the upload endpoints (hint: the name field or its default) and in
\* update_product and update_manufacturer (hint: the new name) alike.
C19_UploadFilename ==
    /\ \A upload \in UploadPool, form \in ProductHints :
          LET o == upload_product_image(DB, now, upload, form)
              hint == IF "product_name" \in DOMAIN form THEN form.product_name.s
                      ELSE <<"p","r","o","d","u","c","t">>
              path == ProductDir \o Constructed(hint, <<"_">>, now, upload.filename)
          IN  o.resp.status = 201 =>
                 (o.written = {path} /\ o.resp.rows[1].file_path = Txt(path))
    /\ \A upload \in UploadPool, form \in ManufacturerHints :
          LET o == upload_manufacturer_logo(DB, now, upload, form)
              hint == IF "manufacturer_name" \in DOMAIN form THEN form.manufacturer_name.s
                      ELSE <<"m","a","n","u","f","a","c","t","u","r","e","r">>
              path == ManufacturersDir \o
                          Constructed(hint, <<"_","l","o","g","o","_">>, now, upload.filename)
          IN  o.resp.status = 201 =>
                 (o.written = {path} /\ o.resp.rows[1].file_path = Txt(path))
    /\ \A id \in ProductIds, form \in UploadingForms :
          LET o == update_product(DB, now, id, form, PngUpload)
              path == ProductDir \o Constructed(form.name.s, <<"_">>, now, PngUpload.filename)
          IN  o.resp.status = 200 =>
                 (o.written = {path} /\ \E p \in o.db.products : p.id = id /\ p.image_path = Txt(path))
    /\ \A id \in ManufacturerIds, form \in UploadingForms :
          LET o == update_manufacturer(DB, now, id, form, PngUpload)
              path == ManufacturersDir \o Constructed(form.name.s, <<"_">>, now, PngUpload.filename)
          IN  o.resp.status = 200 =>
                 (o.written = {path} /\ \E m \in o.db.manufacturers : m.id = id /\ m.logo_path = Txt(path))

----------------------------------------------------------------------------
(* Login among the catalog requests.                                         *)

LoginBodies ==
    {NoJson,
     JsonObject([username |-> ADMIN_USERNAME]),
     JsonObject([username |-> ADMIN_USERNAME, password |-> ADMIN_PASSWORD]),
     JsonObject([username |-> ADMIN_USERNAME, password |-> Empty]),
     JsonObject([username |-> T_a, password |-> ADMIN_PASSWORD])}

CatalogProductBody == JsonObject([name |-> T_a, category |-> T_c, manufacturer_id |-> Num(1)])
CatalogProductForm == [name |-> T_b, category |-> T_d, manufacturer_id |-> Txt(<<"1">>)]

NextLogin ==
    \/ LoginReq(LoginBodies)
    \/ AddManufacturerReq({JsonObject([name |-> M_m])})
    \/ AddCategoryReq({JsonObject([name |-> T_c])})
    \/ AddProductReq({CatalogProductBody})
    \/ UpdateProductReq({CatalogProductForm}, {NoUpload})
    \/ DeleteProductReq
    \/ DeleteManufacturerReq
    \/ DeleteCategoryReq

SpecLogin == Init /\ [][NextLogin]_vars

\* C20: a login call, whatever its outcome, changes no table and writes no file; and in
\* the state a refused or malformed login leaves, the write handlers answer as they do
\* for the store alone: no successful login is needed to add, change or delete.
C20_LoginIsStateless ==
    /\ \A data \in LoginBodies :
          LET o == login_admin(DB, data)
          IN  /\ o.db = DB
              /\ o.written = {}
              /\ o.resp.status \in {200, 400, 401}
              /\ o.resp.status = 200 <=>
                    /\ data.kind = "dict"
                    /\ Has(data, "username") /\ data.f["username"] = ADMIN_USERNAME
                    /\ Has(data, "password") /\ data.f["password"] = ADMIN_PASSWORD
    /\ (resp.op = "login_admin" /\ resp.status # 200) =>
          /\ sqlite_sequence.products < MaxProducts =>
                add_product(DB, now, CatalogProductBody).resp.status = 201
          /\ \A id \in ProductIds :
                /\ update_product(DB, now, id, CatalogProductForm, NoUpload).resp.status =
                      IF \E p \in products : p.id = id THEN 200 ELSE 404
                /\ delete_product(DB, id).resp.status =
                      IF \E p \in products : p.id = id THEN 200 ELSE 404

\* C20 witness: a login was refused in a store that holds rows of all three tables
C20_Witness ==
    /\ resp.op = "login_admin"
    /\ resp.status = 401
    /\ products # {}
    /\ manufacturers # {}
    /\ categories # {}

----------------------------------------------------------------------------
(* The connection a handler opens, followed from get_db_connection to the    *)
(* return. local[t].conn is the state of the connection thread t's handler   *)
(* last opened: "none", "open" or "closed". A handler closes it only where   *)
(* the code calls conn.close(); the except branches do not.                  *)

\* thread t returns r, leaving its connection as conn
Return(t, op, r, conn) ==
    /\ resp' = [r EXCEPT !.op = op]
    /\ pc' = [pc EXCEPT ![t] = "idle"]
    /\ local' = [local EXCEPT ![t] = [NoLocal EXCEPT !.conn = conn]]

\* add_manufacturer: the body read and checked, then get_db_connection()
AddManufacturerConnect(t, bodies) ==
    \E data \in bodies :
        /\ pc[t] = "idle"
        /\ sqlite_sequence.manufacturers < MaxManufacturers
        /\ IF data.kind = "none"
           THEN Return(t, "add_manufacturer", Resp(500, "TypeError"), "none")
           ELSE IF ~Has(data, "name")
           THEN Return(t, "add_manufacturer", Resp(400, "Name is required"), "none")
           ELSE Goto(t, "add_manufacturer_insert",
                     [NoLocal EXCEPT !.form = data.f, !.conn = "open"])
        /\ UNCHANGED <<manufacturers, products, categories, sqlite_sequence, files, now>>

\* add_manufacturer: INSERT, commit, conn.close(), return; or the except branch
AddManufacturerInsert(t) ==
    LET o == add_manufacturer(DB, now, JsonObject(local[t].form))
    IN  /\ pc[t] = "add_manufacturer_insert"
        /\ manufacturers' = o.db.manufacturers
        /\ sqlite_sequence' = o.db.sqlite_sequence
        /\ Return(t, "add_manufacturer", o.resp, IF o.resp.status = 201 THEN "closed" ELSE "open")
        /\ UNCHANGED <<products, categories, files, now>>

\* update_product: get_db_connection(), SELECT, the form checked; conn.close() before
\* the 404 and the 400
UpdateProductConnect(t, forms) ==
    \E id \in ProductIds, form \in forms :
        LET found == {p \in products : p.id = id}
        IN  /\ pc[t] = "idle"
            /\ IF found = {}
               THEN Return(t, "update_product", Resp(404, "Product not found"), "closed")
               ELSE IF ~(Truthy(FormGet(form, "name")) /\ Truthy(FormGet(form, "category"))
                           /\ Truthy(FormGet(form, "manufacturer_id")))
               THEN Return(t, "update_product",
                           Resp(400, "Name, category, and manufacturer are required"), "closed")
               ELSE Goto(t, "update_product_commit",
                         [NoLocal EXCEPT !.id = id, !.form = form, !.conn = "open"])
            /\ UNCHANGED <<manufacturers, products, categories, sqlite_sequence, files, now>>

\* update_product: UPDATE, commit, conn.close(), return
UpdateProductCommit(t) ==
    LET o == update_product(DB, now, local[t].id, local[t].form, NoUpload)
    IN  /\ pc[t] = "update_product_commit"
        /\ products' = o.db.products
        /\ Return(t, "update_product", o.resp, IF o.resp.status = 500 THEN "open" ELSE "closed")
        /\ UNCHANGED <<manufacturers, categories, sqlite_sequence, files, now>>

\* the interpreter frees a connection object nothing refers to any more
ReleaseUnreferenced(t) ==
    /\ pc[t] = "idle"
    /\ local[t].conn = "open"
    /\ local' = [local EXCEPT ![t].conn = "closed"]
    /\ UNCHANGED <<manufacturers, products, categories, sqlite_sequence, files, now, resp, pc>>

ConnManufacturerBodies ==
    {NoJson, JsonObject([description |-> T_d]), JsonObject([name |-> M_m]),
     JsonObject([name |-> M_n])}

ConnProductForms ==
    {[name |-> T_a, category |-> T_c],
     [name |-> T_b, category |-> T_d, manufacturer_id |-> Txt(<<"1">>)]}

NextConn ==
    \/ AddProductReq({JsonObject([name |-> T_a, category |-> T_c, manufacturer_id |-> Num(1)])})
    \/ \E t \in Threads :
          \/ AddManufacturerConnect(t, ConnManufacturerBodies)
          \/ AddManufacturerInsert(t)
          \/ UpdateProductConnect(t, ConnProductForms)
          \/ UpdateProductCommit(t)
          \/ ReleaseUnreferenced(t)

SpecConn == Init /\ [][NextConn]_vars

\* C21: no handler has returned while the connection it opened is still open.
C21_ConnectionReleased ==
    \A t \in Threads : pc[t] = "idle" => local[t].conn # "open"

----------------------------------------------------------------------------
(* KhmerProductsDB.update_product(product_id, **kwargs). kwargs is a function *)
(* from the keywords given to their values.                                  *)

NoFields == [k \in {} |-> Null]

ProductColumns == {"name", "category", "description", "manufacturer_id", "image_path"}

\* the value a column of products stores for a bound parameter
ProductAffinity(column, v) ==
    IF column = "manufacturer_id" THEN IntegerAffinity(v) ELSE TextAffinity(v)

\* kwargs after manufacturer_name has been popped and manufacturer_id set from it
WithManufacturerId(kwargs, manufacturer_id) ==
    [k \in (DOMAIN kwargs \ {"manufacturer_name"}) \cup {"manufacturer_id"} |->
        IF k = "manufacturer_id" THEN manufacturer_id ELSE kwargs[k]]

\* mutant: the UPDATE written with every column, the ones not given set to NULL
SetProductFields_AllColumns(p, t, kwargs) ==
    [c \in DOMAIN p |->
        IF c = "updated_at" THEN Num(t)
        ELSE IF c \in DOMAIN kwargs THEN ProductAffinity(c, kwargs[c])
        ELSE IF c \in {"description", "image_path"} THEN Null
        ELSE p[c]]

\* UPDATE products SET <key> = ?, ..., updated_at = CURRENT_TIMESTAMP WHERE id = ?
SetProductFields(p, t, kwargs) ==
    [c \in DOMAIN p |->
        IF c = "updated_at" THEN Num(t)
        ELSE IF c \in DOMAIN kwargs THEN ProductAffinity(c, kwargs[c])
        ELSE p[c]]

KhmerProductsDB_update_product(db, t, product_id, kwargs) ==
    LET named == IF "manufacturer_name" \in DOMAIN kwargs
                 THEN {m \in db.manufacturers : m.name = kwargs["manufacturer_name"]}
                 ELSE {}
        given == IF "manufacturer_name" \in DOMAIN kwargs /\ named # {}
                 THEN WithManufacturerId(kwargs, Num((CHOOSE m \in named : TRUE).id))
                 ELSE kwargs
        found == {p \in db.products : p.id = product_id}
        changed == {SetProductFields(p, t, given) : p \in found}
    IN  IF "manufacturer_name" \in DOMAIN kwargs /\ named = {}
        THEN Raised(db, "ValueError: Manufacturer not found")
        ELSE IF DOMAIN given = {}
        THEN Outcome(db, Resp(200, "None"))
        ELSE IF ~(DOMAIN given \subseteq ProductColumns)
        THEN Raised(db, "OperationalError: no such column")
        ELSE IF \E p \in changed : IsNull(p.name) \/ IsNull(p.category)
        THEN Raised(db, "IntegrityError: NOT NULL constraint failed")
        ELSE IF found = {}
        THEN Outcome(db, Resp(200, "False"))
        ELSE Outcome([db EXCEPT !.products = (@ \ found) \cup changed], Resp(200, "True"))

KhmerUpdateProductReq(fields) ==
    \E id \in ProductIds, kwargs \in fields :
        Apply("KhmerProductsDB.update_product",
              KhmerProductsDB_update_product(DB, now, id, kwargs))

KhmerUpdatedFields ==
    {NoFields,
     [name |-> T_b],
     [manufacturer_name |-> M_n],
     [manufacturer_name |-> M_m, image_path |-> T_a]}

----------------------------------------------------------------------------
(* KhmerProductsDB used on the store.                                        *)

NextKhmer ==
    \/ KhmerAddManufacturerReq({M_m, M_n})
    \/ AddProductReq(ReferencingBodies)
    \/ KhmerDeleteManufacturerReq
    \/ DeleteProductReq

SpecKhmer == Init /\ [][NextKhmer]_vars

\* C22: KhmerProductsDB.delete_manufacturer(id) returns False and changes nothing when no
\* manufacturer has the id; raises "Cannot delete manufacturer with existing products"
\* and keeps the row when a product references it; otherwise deletes the row and
\* returns True.
C22_KhmerDeleteManufacturer ==
    \A id \in ManufacturerIds :
        LET o == KhmerProductsDB_delete_manufacturer(DB, id)
            row == {m \in manufacturers : m.id = id}
        IN  IF row = {}
            THEN o.resp.msg = "False" /\ o.db = DB
            ELSE IF \E p \in products : p.manufacturer_id = Num(id)
            THEN /\ o.resp.msg = "ValueError: Cannot delete manufacturer with existing products"
                 /\ o.db = DB
            ELSE /\ o.resp.msg = "True"
                 /\ o.db = [DB EXCEPT !.manufacturers = @ \ row]

----------------------------------------------------------------------------
(* excel_import.py: the Categories and Products sheets. An empty cell reads  *)
(* as NaN, which SQLite stores as NULL.                                      *)

RECURSIVE ImportCategoryRows(_, _, _)
ImportCategoryRows(db, t, sheet) ==
    IF sheet = <<>> THEN db
    ELSE ImportCategoryRows(InsertCategory(db, t, Head(sheet).name).db, t, Tail(sheet))

import_categories_from_excel(db, t, sheet) ==
    Outcome(ImportCategoryRows(db, t, sheet), Resp(200, "imported categories"))

\* manufacturer_map.get(manufacturer_name): the id under that name, or None
ManufacturerMapGet(manufacturer_map, manufacturer_name) ==
    LET named == {m \in manufacturer_map : m.name = manufacturer_name}
    IN  IF named = {} THEN Null ELSE Num((CHOOSE m \in named : TRUE).id)

\* SELECT id FROM products WHERE name = ? AND manufacturer_id = ?
ExistingProduct(db, product_name, manufacturer_id) ==
    {p \in db.products : /\ ~IsNull(product_name)
                         /\ p.name = TextAffinity(product_name)
                         /\ p.manufacturer_id = manufacturer_id}

\* mutant: the import without its check for an existing product
RECURSIVE ImportProductRows_Unchecked(_, _, _, _)
ImportProductRows_Unchecked(db, t, sheet, manufacturer_map) ==
    IF sheet = <<>> THEN db
    ELSE LET row == Head(sheet)
             manufacturer_id == ManufacturerMapGet(manufacturer_map, row.manufacturer_name)
             ins == InsertProduct(db, t, row.name, row.category, row.description,
                                  row.image_path, manufacturer_id)
         IN  IF IsNull(manufacturer_id)
             THEN ImportProductRows_Unchecked(db, t, Tail(sheet), manufacturer_map)
             ELSE ImportProductRows_Unchecked(ins.db, t, Tail(sheet), manufacturer_map)

RECURSIVE ImportProductRows(_, _, _, _)
ImportProductRows(db, t, sheet, manufacturer_map) ==
    IF sheet = <<>> THEN db
    ELSE LET row == Head(sheet)
             manufacturer_id == ManufacturerMapGet(manufacturer_map, row.manufacturer_name)
             ins == InsertProduct(db, t, row.name, row.category, row.description,
                                  row.image_path, manufacturer_id)
         IN  IF IsNull(manufacturer_id)
             THEN ImportProductRows(db, t, Tail(sheet), manufacturer_map)
             ELSE IF ExistingProduct(db, row.name, manufacturer_id) # {}
             THEN ImportProductRows(db, t, Tail(sheet), manufacturer_map)
             ELSE ImportProductRows(ins.db, t, Tail(sheet), manufacturer_map)

import_products_from_excel(db, t, sheet) ==
    Outcome(ImportProductRows(db, t, sheet, db.manufacturers), Resp(200, "imported products"))

ImportCategoriesReq(sheets) ==
    \E sheet \in sheets :
        /\ sqlite_sequence.categories + Len(sheet) <= MaxCategories
        /\ Apply("import_categories_from_excel", import_categories_from_excel(DB, now, sheet))

ImportProductsReq(sheets) ==
    \E sheet \in sheets :
        /\ sqlite_sequence.products + Len(sheet) <= MaxProducts
        /\ Apply("import_products_from_excel", import_products_from_excel(DB, now, sheet))

ProductRow(name, category, manufacturer_name) ==
    [name |-> name, category |-> category, description |-> Null,
     manufacturer_name |-> manufacturer_name, image_path |-> Null]

CategoryRow(name) == [name |-> name]

ProductCells == {Null, T_a, T_b}
ProductRows ==
    {ProductRow(n, c, m) : n \in ProductCells, c \in {Null, T_c}, m \in {Null, M_m, M_n}}

\* every sheet of at most two rows
ProductSheets == {<<>>} \cup {<<r>> : r \in ProductRows} \cup {<<r, s>> : r, s \in ProductRows}

ImportedProductSheets ==
    {<<ProductRow(T_a, T_c, M_m)>>,
     <<ProductRow(T_a, T_c, M_n), ProductRow(T_a, T_d, M_n)>>,
     <<ProductRow(T_b, T_c, M_m), ProductRow(T_a, T_c, Null)>>}

CategorySheets ==
    {<<CategoryRow(T_c)>>, <<CategoryRow(T_d), CategoryRow(T_d)>>, <<CategoryRow(Null), CategoryRow(T_c)>>}

NextImport ==
    \/ ImportManufacturersReq(ManufacturerSheets)
    \/ ImportCategoriesReq(CategorySheets)
    \/ ImportProductsReq(ImportedProductSheets)
    \/ DeleteProductReq
    \/ DeleteManufacturerReq

SpecImport == Init /\ [][NextImport]_vars

\* the (name, manufacturer) pair a sheet row would be stored under
RowKey(row) == <<TextAffinity(row.name), ManufacturerMapGet(manufacturers, row.manufacturer_name)>>
RowKnown(row) == ~IsNull(ManufacturerMapGet(manufacturers, row.manufacturer_name))
RowStored(row) == \E p \in products : <<p.name, p.manufacturer_id>> = RowKey(row)
RowComplete(row) == ~IsNull(row.name) /\ ~IsNull(row.category)
KeysOf(rows) == {<<p.name, p.manufacturer_id>> : p \in rows}

\* rows of the sheet the claim says are inserted: known manufacturer, not in the store,
\* and no earlier row of the sheet under the same pair and a known manufacturer
ClaimedInserted(sheet) ==
    {i \in 1..Len(sheet) :
        /\ RowKnown(sheet[i])
        /\ ~RowStored(sheet[i])
        /\ \A j \in 1..(i - 1) : RowKey(sheet[j]) # RowKey(sheet[i])}

\* the same, among the rows whose name and category cells are filled
CompleteInserted(sheet) ==
    {i \in 1..Len(sheet) :
        /\ RowKnown(sheet[i]) /\ RowComplete(sheet[i])
        /\ ~RowStored(sheet[i])
        /\ \A j \in 1..(i - 1) : RowComplete(sheet[j]) => RowKey(sheet[j]) # RowKey(sheet[i])}

SecondImportAddsNothing ==
    /\ \A sheet \in ProductSheets :
          LET once == import_products_from_excel(DB, now, sheet).db
          IN  import_products_from_excel(once, now, sheet).db.products = once.products
    /\ \A sheet \in ManufacturerSheets :
          LET once == import_manufacturers_from_excel(DB, now, sheet).db
          IN  import_manufacturers_from_excel(once, now, sheet).db.manufacturers
                  = once.manufacturers
    /\ \A sheet \in CategorySheets :
          LET once == import_categories_from_excel(DB, now, sheet).db
          IN  import_categories_from_excel(once, now, sheet).db.categories = once.categories

\* C23 as stated: the product import inserts exactly the rows with a known manufacturer
\* and no product under the same (name, manufacturer) in the store or earlier in the
\* sheet, and importing a sheet a second time adds nothing.
C23_ImportInsertsIff ==
    /\ \A sheet \in ProductSheets :
          LET after == import_products_from_excel(DB, now, sheet).db
              added == after.products \ products
          IN  /\ products \subseteq after.products
              /\ Cardinality(added) = Cardinality(ClaimedInserted(sheet))
              /\ KeysOf(added) = {RowKey(sheet[i]) : i \in ClaimedInserted(sheet)}
    /\ SecondImportAddsNothing

\* C23: the product import inserts exactly the rows with a filled name and category, a
\* known manufacturer and no product under the same (name, manufacturer) in the store or
\* earlier in the sheet; the other rows are skipped and the rows after them still
\* handled; importing a manufacturers, categories or products sheet a second time adds
\* no row.
C23_ImportInsertsComplete ==
    /\ \A sheet \in ProductSheets :
          LET after == import_products_from_excel(DB, now, sheet).db
              added == after.products \ products
          IN  /\ products \subseteq after.products
              /\ after.manufacturers = manufacturers /\ after.categories = categories
              /\ Cardinality(added) = Cardinality(CompleteInserted(sheet))
              /\ KeysOf(added) = {RowKey(sheet[i]) : i \in CompleteInserted(sheet)}
    /\ SecondImportAddsNothing

\* a products sheet was imported whose first row was stored and whose second row was
\* skipped for its manufacturer, and importing it again would add nothing
C23_Witness ==
    /\ resp.op = "import_products_from_excel"
    /\ LET sheet == <<ProductRow(T_b, T_c, M_m), ProductRow(T_a, T_c, Null)>>
       IN  /\ RowStored(sheet[1]) /\ ~RowKnown(sheet[2])
           /\ import_products_from_excel(DB, now, sheet).db.products = products
    /\ \E sheet \in ProductSheets : Len(sheet) = 2 /\ Cardinality(CompleteInserted(sheet)) = 1

----------------------------------------------------------------------------
(* The category of a product against the categories table.                   *)

CategoryStrings == {T_c, T_C, T_d, Txt(<<" ">>), Txt(<<"c", " ">>)}

UsedCategories == {p.category : p \in products}
CategoryNames == {c.name : c \in categories}

\* C24: add_product and update_product succeed for every non-empty category string,
\* whether or not a category row has that name, and store it as given; add_product,
\* update_product and delete_product leave the categories table as it was.
C24_CategoryNotTied ==
    /\ \A c \in CategoryStrings :
          LET a == add_product(DB, now, JsonObject([name |-> T_a, category |-> c,
                                                    manufacturer_id |-> Null]))
          IN  /\ a.resp.status = 201
              /\ \E p \in a.db.products \ products : p.category = c
              /\ \A id \in {p.id : p \in products} :
                    LET u == update_product(DB, now, id,
                                 [name |-> T_a, category |-> c, manufacturer_id |-> Txt(<<"1">>)],
                                 NoUpload)
                    IN  /\ u.resp.status = 200
                        /\ \E p \in u.db.products : p.id = id /\ p.category = c
    /\ \A data \in CategorizedBodies \cup ProductBodies :
          add_product(DB, now, data).db.categories = categories
    /\ \A id \in ProductIds :
          /\ delete_product(DB, id).db.categories = categories
          /\ \A form \in CategorizedForms :
                update_product(DB, now, id, form, NoUpload).db.categories = categories

\* a product was added or updated under the category "C", which no category row names,
\* while the categories table holds other names
C24_Witness ==
    /\ resp.op \in {"add_product", "update_product"}
    /\ resp.status \in {200, 201}
    /\ categories # {}
    /\ ~(UsedCategories \subseteq CategoryNames)
    /\ \E p \in products : p.category = T_C /\ T_C \notin CategoryNames

----------------------------------------------------------------------------
(* The manufacturer a product refers to.                                     *)

\* C25: every product's manufacturer_id is null or the id of a manufacturer row of the
\* store.
C25_ReferentialIntegrity ==
    \A p \in products :
        IsNull(p.manufacturer_id) \/ \E m \in manufacturers : Num(m.id) = p.manufacturer_id

----------------------------------------------------------------------------
(* add_category statement by statement: its SELECT sees the committed store, *)
(* its INSERT and commit are one step, and other requests fall between.      *)

\* add_category: the body read and checked, SELECT id FROM categories WHERE name = ?
AddCategorySelect(t, bodies) ==
    \E data \in bodies :
        LET checked == add_category(EmptyDB, now, data)
            category_name == Txt(Strip(data.f["name"].s))
        IN  /\ pc[t] = "idle"
            /\ sqlite_sequence.categories
                   + Cardinality({u \in Threads : pc[u] = "add_category_insert"}) < MaxCategories
            /\ IF checked.resp.status # 201
               THEN Respond(t, "add_category", checked.resp)
               ELSE IF \E c \in categories : c.name = category_name
               THEN Respond(t, "add_category", Resp(409, "Category already exists"))
               ELSE Goto(t, "add_category_insert", [NoLocal EXCEPT !.name = category_name])
            /\ UNCHANGED <<manufacturers, products, categories, sqlite_sequence, files, now>>

\* add_category: INSERT INTO categories (name) VALUES (?); commit
AddCategoryInsert(t) ==
    LET ins == InsertCategory(DB, now, local[t].name)
    IN  /\ pc[t] = "add_category_insert"
        /\ categories' = ins.db.categories
        /\ sqlite_sequence' = ins.db.sqlite_sequence
        /\ IF ~ins.ok
           THEN Respond(t, "add_category", Resp(500, ins.err))
           ELSE Respond(t, "add_category",
                        [Resp(201, "Category created successfully") EXCEPT
                            !.id = ins.lastrowid, !.rows = <<[name |-> local[t].name]>>])
        /\ UNCHANGED <<manufacturers, products, files, now>>

ConcCategoryBodies ==
    {NoJson,
     JsonObject([name |-> Empty]),
     JsonObject([name |-> T_c]),
     JsonObject([name |-> Txt(<<" ", "c", " ">>)]),
     JsonObject([name |-> T_d])}

NextCategoriesConc ==
    \/ \E t \in Threads :
          \/ AddCategorySelect(t, ConcCategoryBodies)
          \/ AddCategoryInsert(t)
          \/ DeleteCategorySelect(t)
          \/ DeleteCategoryCount(t)
          \/ DeleteCategoryDelete(t)
    \/ AddProductReq(CategorizedBodies)

SpecCategoriesConc == Init /\ [][NextCategoriesConc]_vars

\* C26: whenever an add_category request runs its INSERT, it creates the category and
\* answers 201 if no category has its name, and answers 409 "already exists" if a
\* request that ran in between has created it; one row has the name afterwards.
C26_ConcurrentAddCategory ==
    [][\A t \in Threads :
          (pc[t] = "add_category_insert" /\ pc'[t] = "idle") =>
              /\ Cardinality({c \in categories' : c.name = local[t].name}) = 1
              /\ IF \E c \in categories : c.name = local[t].name
                 THEN resp'.status = 409 /\ categories' = categories
                 ELSE resp'.status = 201]_vars

----------------------------------------------------------------------------
(* KhmerProductsDB.update_product, checked under SpecKhmerUpdate.            *)

NextKhmerUpdate ==
    \/ KhmerAddManufacturerReq({M_m})
    \/ AddProductReq({JsonObject([name |-> T_a, category |-> T_c, manufacturer_id |-> Null])})
    \/ KhmerUpdateProductReq(KhmerUpdatedFields)
    \/ Tick

SpecKhmerUpdate == Init /\ [][NextKhmerUpdate]_vars

KhmerFields ==
    KhmerUpdatedFields \cup
    {[category |-> T_d, description |-> T_d],
     [name |-> Null], [colour |-> T_a], [manufacturer_id |-> Txt(<<"2">>)],
     [manufacturer_name |-> Null], [manufacturer_name |-> M_m, manufacturer_id |-> Num(9)],
     [name |-> T_a, category |-> T_c, description |-> Null]}

\* the columns a call is given, manufacturer_name standing for manufacturer_id
Supplied(kwargs) ==
    (DOMAIN kwargs \ {"manufacturer_name"}) \cup
    (IF "manufacturer_name" \in DOMAIN kwargs THEN {"manufacturer_id"} ELSE {})

NamesNoManufacturer(kwargs) ==
    /\ "manufacturer_name" \in DOMAIN kwargs
    /\ ~\E m \in manufacturers : m.name = kwargs["manufacturer_name"]

\* only the supplied fields and updated_at of product id differ between the stores
OnlySuppliedChanged(db, id, kwargs) ==
    /\ db.manufacturers = manufacturers
    /\ db.categories = categories
    /\ {p \in db.products : p.id # id} = {p \in products : p.id # id}
    /\ {p.id : p \in db.products} = {p.id : p \in products}
    /\ \A p \in products, q \in db.products :
          p.id = id /\ q.id = id =>
              \A c \in DOMAIN p \ (Supplied(kwargs) \cup {"updated_at"}) : q[c] = p[c]

----------------------------------------------------------------------------
(* The manufacturer filter of get_products over the LEFT JOIN.               *)

ListedManufacturerBodies == {JsonObject([name |-> M_m]), JsonObject([name |-> Empty])}

ListedProductBodies ==
    {JsonObject([name |-> T_a, category |-> T_c, manufacturer_id |-> m]) :
        m \in {Null, Num(1), Num(2), Num(3)}}

ManufacturerQueries == {NoFilter} \cup {[NoFilter EXCEPT !.manufacturer = n] : n \in {M_m, M_n, Empty}}

NextListing ==
    \/ AddManufacturerReq(ListedManufacturerBodies)
    \/ AddProductReq(ListedProductBodies)
    \/ DeleteProductReq
    \/ GetProductsReq(ManufacturerQueries)

SpecListing == Init /\ [][NextListing]_vars

HasManufacturer(p) == \E m \in manufacturers : Num(m.id) = p.manufacturer_id

\* the ids get_products lists under a manufacturer filter
FilteredBy(manufacturer) ==
    UNION {IdsOf(listed) : listed \in get_products(DB, [NoFilter EXCEPT !.manufacturer = manufacturer])}

\* C28: a manufacturer-name filter excludes every product whose manufacturer_id is null
\* or names no manufacturer; the unfiltered listing has these products with a null
\* manufacturer_name; the filtered results of all the manufacturers' names together are
\* exactly the products that have a manufacturer.
C28_ManufacturerFilter ==
    /\ \A n \in {M_m, M_n} : \A p \in products : ~HasManufacturer(p) => p.id \notin FilteredBy(n)
    /\ \A listed \in get_products(DB, NoFilter) :
          \A p \in products :
              ~HasManufacturer(p) =>
                  \E i \in 1..Len(listed) :
                      listed[i].id = p.id /\ IsNull(listed[i].manufacturer_name)
    /\ UNION {FilteredBy(m.name) : m \in manufacturers}
           = {p.id : p \in {x \in products : HasManufacturer(x)}}

----------------------------------------------------------------------------
(* Two uploads and the paths they resolve to.                                *)

Endpoints == {"product-image", "manufacturer-logo"}

PathHints ==
    {[other |-> Empty],
     [product_name |-> Txt(<<"a", " ", "b">>), manufacturer_name |-> Txt(<<"a", " ", "b">>)],
     [product_name |-> Txt(<<"A", "_", "b">>), manufacturer_name |-> Txt(<<"A", "_", "b">>)],
     [product_name |-> T_b, manufacturer_name |-> T_b]}

PathUploads ==
    {PngUpload, Upload(<<"X", ".", "P", "N", "G">>), Upload(<<"a", ".", "b", ".", "j", "p", "g">>)}

UploadTo(endpoint, db, t, upload, form) ==
    IF endpoint = "product-image"
    THEN upload_product_image(db, t, upload, form)
    ELSE upload_manufacturer_logo(db, t, upload, form)

\* the display-name hint an endpoint reads from the form, or its default
HintOf(endpoint, form) ==
    IF endpoint = "product-image"
    THEN (IF "product_name" \in DOMAIN form THEN form.product_name.s
          ELSE <<"p","r","o","d","u","c","t">>)
    ELSE (IF "manufacturer_name" \in DOMAIN form THEN form.manufacturer_name.s
          ELSE <<"m","a","n","u","f","a","c","t","u","r","e","r">>)

\* endpoint, sanitized hint, second, extension in lower case
PathKey(endpoint, form, t, upload) ==
    <<endpoint, Sanitized(HintOf(endpoint, form)), t, Lower(AfterLastDot(upload.filename))>>

NextPaths ==
    \/ UploadProductImageReq({ExeUpload, PngUpload},
                             {[product_name |-> T_Bx], [product_name |-> Txt(<<"b", "_">>)],
                              [product_name |-> T_a]})
    \/ UploadManufacturerLogoReq({PngUpload}, {[other |-> Empty]})
    \/ Tick

SpecPaths == Init /\ [][NextPaths]_vars

\* the uploads that can be sent from now on, each with its key and its outcome
UploadCalls ==
    {[key |-> PathKey(e, f, t, u), o |-> UploadTo(e, DB, t, u, f)] :
        e \in Endpoints, f \in PathHints, u \in PathUploads, t \in now..MaxTime}

SameKeySamePath ==
    \A c1, c2 \in UploadCalls :
        /\ c1.o.resp.status = 201
        /\ c1.key = c2.key =>
              /\ c1.o.resp.rows[1].file_path = c2.o.resp.rows[1].file_path
              /\ c1.o.written = c2.o.written
              /\ Cardinality((files \cup c1.o.written \cup c2.o.written) \ files) <= 1

DistinctOnlyByHint ==
    \A c1, c2 \in UploadCalls :
        (c1.key # c2.key /\ c1.o.written # c2.o.written) => c1.key[2] # c2.key[2]

OtherKeyOtherPath ==
    \A c1, c2 \in UploadCalls :
        c1.key # c2.key =>
            /\ c1.o.written # c2.o.written
            /\ c1.o.resp.rows[1].file_path # c2.o.resp.rows[1].file_path

\* C29 as stated: two accepted uploads that agree on endpoint, sanitized hint, second
\* and extension resolve to the same path, written once and returned to both; two that
\* differ in any of the four get distinct paths only if their sanitized hints differ.
C29_PathAsStated ==
    /\ SameKeySamePath
    /\ DistinctOnlyByHint

\* C29: two accepted uploads that agree on endpoint, sanitized hint, second and
\* extension resolve to the same path, written once and returned to both; two that
\* differ in any of the four get distinct paths.
C29_PathDeterminedByKey ==
    /\ SameKeySamePath
    /\ OtherKeyOtherPath

\* product images were uploaded under hints with the same sanitized form in second 0
\* and in second 1, and nothing else: two files
C29_Witness ==
    /\ resp.op = "upload_product_image"
    /\ resp.status = 201
    /\ now = 1
    /\ resp.rows[1].file_path.s \in files
    /\ {f \in files : SubSeq(f, 1, Len(ProductDir)) = ProductDir}
          = {ProductDir \o Constructed(T_Bx.s, <<"_">>, t, PngUpload.filename) : t \in {0, 1}}

----------------------------------------------------------------------------
(* Ids over inserts and deletes in the three tables.                         *)

NextIds ==
    \/ AddManufacturerReq({JsonObject([name |-> M_m]), JsonObject([name |-> M_n])})
    \/ ImportManufacturersReq({<<SheetRow(T_a), SheetRow(T_b)>>})
    \/ DeleteManufacturerReq
    \/ AddProductReq({JsonObject([name |-> T_a, category |-> T_d, manufacturer_id |-> Null])})
    \/ DeleteProductReq
    \/ AddCategoryReq({JsonObject([name |-> T_c]), JsonObject([name |-> T_C])})
    \/ DeleteCategoryReq

SpecIds == Init /\ [][NextIds]_vars

Tables == {"manufacturers", "products", "categories"}

\* C30: sqlite_sequence holds, for each table, an id no smaller than any id the table
\* holds and never decreases, and every row an insert adds gets an id above it: an id is
\* above every id assigned before, those of deleted rows included.
C30_IdsNeverReused ==
    [][\A table \in Tables :
          /\ sqlite_sequence'[table] >= sqlite_sequence[table]
          /\ \A r \in DB[table] : r.id <= sqlite_sequence[table]
          /\ \A r \in DB'[table] : r.id <= sqlite_sequence'[table]
          /\ \A r \in DB'[table] :
                (~\E q \in DB[table] : q.id = r.id) => r.id > sqlite_sequence[table]]_vars

\* manufacturer 1 was added and deleted, and the next manufacturer added got id 2
C30_Witness ==
    /\ resp.op = "add_manufacturer"
    /\ resp.status = 201
    /\ resp.id = 2
    /\ {m.id : m \in manufacturers} = {2}
    /\ sqlite_sequence.manufacturers = 2

====
